---- MODULE Spec2Model ----
(***************************************************************************)
(* Model of the "drop" dashboard: the image-sequence login, the per-origin *)
(* attempt throttle, the in-memory session store and the access gateway of *)
(* server.js (src/server/Dockerfile, lines 35-426), with the part of the   *)
(* React client (src/client/src/components/Homepage.js) that keeps, sends  *)
(* and drops the token; then the handlers behind the gateway: the admin    *)
(* password check and its throttle, upload and download of files, the      *)
(* notes and the password vault.                                           *)
(***************************************************************************)
EXTENDS Integers, Sequences, FiniteSets, Bags, TLC

(***************************************************************************)
(* Bounds of the model.                                                    *)
(***************************************************************************)
\* How many times the server process is restarted in one behaviour.
MaxRestarts == 1
\* The longest list submitted to the verifier (the secret has 4 elements).
MaxSeqLen == 5
\* How many admin-password checks wait for bcrypt.compare at the same time.
MaxInflight == 2
\* How many uploads are being written at the same time.
MaxUploads == 2
\* How many entries one identity keeps in the notes file or in the vault.
MaxEntries == 2
\* The last millisecond of the clock that Date.now() reads.
MaxClock == 2

(***************************************************************************)
(* JSON values and optional strings.                                       *)
(*                                                                         *)
(* An element of a submitted array is a JSON number or a JSON string; both *)
(* are kept with their type, because the handler compares with ===.        *)
(* An optional string (a header, a query parameter, a localStorage item)   *)
(* is the empty tuple when it is undefined/null and <<s>> otherwise.       *)
(***************************************************************************)
Num(n) == [t |-> "number", n |-> n]
Str(n) == [t |-> "string", n |-> n]
Undefined == [t |-> "undefined", n |-> 0]

Absent == <<>>
Some(s) == <<s>>

\* JavaScript truthiness of an optional string: undefined, null and "" are falsy.
Truthy(v) == v # Absent /\ v[1] # ""

\* array[index] with JavaScript's answer for an index outside the array
\* (indices here are 1-based).
At(array, index) == IF index \in DOMAIN array THEN array[index] ELSE Undefined

\* value === other: same type and same value, no coercion.
StrictEq(value, other) == value.t = other.t /\ value.n = other.n

\* String(value) as Array.prototype.join applies it to an element.
ElemText(value) == IF value.t = "undefined" THEN "" ELSE ToString(value.n)

\* array.join(sep)
RECURSIVE Join(_, _)
Join(array, sep) ==
    IF Len(array) = 0 THEN ""
    ELSE IF Len(array) = 1 THEN ElemText(array[1])
    ELSE ElemText(array[1]) \o sep \o Join(Tail(array), sep)

\* req.body.imageSequence: missing, a non-array value, or an array.
Missing == [kind |-> "missing", seq |-> <<>>]
Scalar == [kind |-> "scalar", seq |-> <<>>]
Arr(seq) == [kind |-> "array", seq |-> seq]
NoBody == [kind |-> "none", seq |-> <<>>]

(***************************************************************************)
(* Program constants.                                                      *)
(***************************************************************************)
CORRECT_IMAGE_SEQUENCE == <<Num(2), Num(6), Num(4), Num(8)>>
MAX_IMAGE_LOGIN_ATTEMPTS == 5
ADMIN_PASSWORD == "admin"
MAX_ADMIN_PASSWORD_ATTEMPTS == 5

\* The client network origins (req.ip) that send requests.
Origins == {"10.0.0.1", "10.0.0.2"}

VARIABLES
    imageLoginAttempts,   \* server: req.ip -> failed attempts (0 when no entry)
    authenticatedUsers,   \* server: the session store, a set of token strings
    authToken,            \* client: localStorage item 'authToken' (optional)
    boot,                 \* number of restarts of the server process so far
    last,                 \* the step just taken: the request and its response
    issued,               \* history: tokens returned by a login of this process
    tokensSeen,           \* history: tokens returned by a login of any process
    revoked,              \* history: tokens logged out and not issued again
    fails,                \* history: origin -> 401 logins since its last 200
    scen,                 \* history: the run of [1,2,3,4] logins of one origin
    adminPasswordAttempts, \* server: req.user.id -> failed admin checks
    adminPending,         \* server: admin checks waiting at await bcrypt.compare
    uploadDir,            \* disk: file name -> content, a sequence of chunks
    uploadStreams,        \* server: the write streams of the running uploads
    completed,            \* history: name -> data of its last finished upload
    notesFile,            \* disk: data/notes.json, identity -> list of notes
    passwordsFile,        \* disk: data/passwords.json, identity -> list
    now,                  \* the millisecond clock read by Date.now()
    dataFiles,            \* disk: the names of the files that exist in data/
    columns,              \* client: the files shown by each FileColumn
    clickedSequence,      \* client: HomePage state, the cells clicked so far
    loginFetches,         \* client: responses of POST /login not yet handled
    notes,                \* client: NotesSection state, the list shown
    noteFetches,          \* client: note requests in flight, with the handler's closure
    payload               \* the data carried by the response of the last step

serverVars == <<imageLoginAttempts, authenticatedUsers>>
histVars == <<issued, tokensSeen, revoked, fails, scen>>
adminVars == <<adminPasswordAttempts, adminPending>>
fileVars == <<uploadDir, uploadStreams, completed>>
dataVars == <<notesFile, passwordsFile, now, dataFiles>>
loginUiVars == <<clickedSequence, loginFetches>>
notesUiVars == <<notes, noteFetches>>
uiVars == <<columns, clickedSequence, loginFetches, notes, noteFetches>>
vars == <<imageLoginAttempts, authenticatedUsers, authToken, boot, last,
          issued, tokensSeen, revoked, fails, scen,
          adminPasswordAttempts, adminPending, uploadDir, uploadStreams,
          completed, notesFile, passwordsFile, now, dataFiles, columns,
          clickedSequence, loginFetches, notes, noteFetches, payload>>

(***************************************************************************)
(* Credential verifier and token derivation (POST /login).                 *)
(***************************************************************************)
\* A verifier that forgets the length test: every() alone accepts each prefix.
isCorrectNoLength(imageSequence) ==
    \A index \in 1..Len(imageSequence) :
        StrictEq(imageSequence[index], At(CORRECT_IMAGE_SEQUENCE, index))

isCorrect(imageSequence) ==
    /\ Len(imageSequence) = Len(CORRECT_IMAGE_SEQUENCE)
    /\ \A index \in 1..Len(imageSequence) :
           StrictEq(imageSequence[index], At(CORRECT_IMAGE_SEQUENCE, index))

\* A token that carries a per-process part.
TokenPerProcess(imageSequence) ==
    "user_" \o Join(imageSequence, "_") \o "#" \o ToString(boot)

\* `user_${imageSequence.join('_')}`
TokenOf(imageSequence) == "user_" \o Join(imageSequence, "_")

\* A throttle test that is off by one (> instead of >=).
ThrottledOffByOne(count) == count > MAX_IMAGE_LOGIN_ATTEMPTS

\* imageLoginAttempts[clientKey] >= MAX_IMAGE_LOGIN_ATTEMPTS
Throttled(count) == count >= MAX_IMAGE_LOGIN_ATTEMPTS

\* A success that leaves the counter as it was.
RecordSuccessKept(attempts, clientKey) == attempts

\* imageLoginAttempts[clientKey] = 0 (reset attempts on success)
RecordSuccess(attempts, clientKey) == [attempts EXCEPT ![clientKey] = 0]

\* A failure that is not counted.
RecordFailureLost(attempts, clientKey) == attempts

\* A failure that is counted twice.
RecordFailureTwice(attempts, clientKey) == [attempts EXCEPT ![clientKey] = @ + 2]

\* A failure that is counted against every origin (one counter for all).
RecordFailureAll(attempts, clientKey) ==
    [o \in DOMAIN attempts |-> attempts[o] + 1]

\* imageLoginAttempts[clientKey]++ (increment attempts on failure)
RecordFailure(attempts, clientKey) == [attempts EXCEPT ![clientKey] = @ + 1]

\* A failed login that also empties the session store.
AddOrClear(store, token, correct) == IF correct THEN store \cup {token} ELSE {}

\* A login that registers a token whatever the verdict was.
AddOnAnyVerdict(store, token, correct) == store \cup {token}

\* authenticatedUsers.add(token), reached only in the isCorrect branch.
AddToken(store, token, correct) == IF correct THEN store \cup {token} ELSE store

(***************************************************************************)
(* Access gateway (authenticateToken).                                     *)
(***************************************************************************)
\* A gateway that reads the header only.
ExtractTokenHeaderOnly(authorization, queryToken) == authorization

\* A gateway that prefers the query parameter to the header.
ExtractTokenQueryFirst(authorization, queryToken) ==
    IF Truthy(queryToken) THEN queryToken ELSE authorization

\* req.headers['authorization'] || req.query.token
ExtractToken(authorization, queryToken) ==
    IF Truthy(authorization) THEN authorization ELSE queryToken

\* A gateway that lets every supplied token through.
GatewayVerdictLax(token, store) ==
    IF ~Truthy(token) THEN "missing" ELSE "pass"

\* if (!token) 401; else if (authenticatedUsers.has(token)) next(); else 403
GatewayVerdict(token, store) ==
    IF ~Truthy(token) THEN "missing"
    ELSE IF token[1] \in store THEN "pass"
    ELSE "invalid"

(***************************************************************************)
(* The record of one step: the request and the response it got.            *)
(***************************************************************************)
Step(op, origin, body, hdr, qry, status, message, token, user, ran) ==
    [op |-> op, origin |-> origin, body |-> body, hdr |-> hdr, qry |-> qry,
     status |-> status, message |-> message, token |-> token, user |-> user,
     ran |-> ran]

LoginStep(clientKey, body, status, message, token) ==
    Step("POST /login", clientKey, body, Absent, Absent, status, message,
         token, Absent, FALSE)

LocalStep(op) ==
    Step(op, "-", NoBody, Absent, Absent, 0, "", Absent, Absent, FALSE)

(***************************************************************************)
(* Inputs.                                                                 *)
(***************************************************************************)
Nums(seq) == [i \in 1..Len(seq) |-> Num(seq[i])]
Strs(seq) == [i \in 1..Len(seq) |-> Str(seq[i])]

\* The wrong sequence of the example scenario.
WrongSequence == Nums(<<1, 2, 3, 4>>)

\* The bodies sent to POST /login in the main specification.
LoginBodies ==
    {Missing, Scalar, Arr(CORRECT_IMAGE_SEQUENCE), Arr(WrongSequence),
     Arr(Nums(<<6, 2, 4, 8>>)), Arr(Nums(<<2, 6, 4>>))}

\* The grid cells a user clicks before pressing Login (0-based cell indices).
ClickSeqs == {<<1, 5, 3, 7>>, <<0, 1, 2, 3>>}

\* The token strings a request may carry.
ValidToken == TokenOf(CORRECT_IMAGE_SEQUENCE)
ForgedToken == TokenOf(WrongSequence)
HeaderValues == {Absent, Some(""), Some(ValidToken), Some(ForgedToken)}
QueryValues == {Absent, Some(ValidToken), Some(ForgedToken)}

\* Protected read endpoints whose handlers answer 200 once the gateway passes.
ProtectedOps == {"GET /notes", "GET /passwords"}

\* The identities (req.user.id) that key the admin throttle and the stores.
Identities == {ValidToken, ForgedToken}

\* What a response carries besides its status: nothing, a file's content, a
\* listing, or the entries of a store.
Nothing == [kind |-> "none", data |-> <<>>]
Carry(kind, data) == [kind |-> kind, data |-> data]

(***************************************************************************)
(* History bookkeeping.                                                    *)
(***************************************************************************)
Min(a, b) == IF a < b THEN a ELSE b

FreshScen == [o |-> "-", n |-> 0]

\* scen counts the logins of a process as long as they are all [1,2,3,4]
\* from one origin; n = -1 once any other login has been made.
ScenAfter(clientKey, body) ==
    IF /\ scen.n >= 0
       /\ body = Arr(WrongSequence)
       /\ (scen.n = 0 \/ scen.o = clientKey)
    THEN [o |-> clientKey, n |-> Min(scen.n + 1, MAX_IMAGE_LOGIN_ATTEMPTS + 1)]
    ELSE [o |-> "-", n |-> -1]

(***************************************************************************)
(* Initial state: a freshly started server, a browser with empty storage.  *)
(***************************************************************************)
Init ==
    /\ imageLoginAttempts = [o \in Origins |-> 0]
    /\ authenticatedUsers = {}
    /\ authToken = Absent
    /\ boot = 0
    /\ last = LocalStep("start")
    /\ issued = {}
    /\ tokensSeen = {}
    /\ revoked = {}
    /\ fails = [o \in Origins |-> 0]
    /\ scen = FreshScen
    /\ adminPasswordAttempts = [k \in Identities |-> 0]
    /\ adminPending = EmptyBag
    /\ uploadDir = <<>>
    /\ uploadStreams = EmptyBag
    /\ completed = <<>>
    /\ notesFile = [k \in Identities |-> <<>>]
    /\ passwordsFile = [k \in Identities |-> <<>>]
    /\ now = 0
    /\ dataFiles = {}
    /\ columns = [fileTypeFilter \in {"image", "other"} |-> {}]
    /\ clickedSequence = <<>>
    /\ loginFetches = EmptyBag
    /\ notes = <<>>
    /\ noteFetches = EmptyBag
    /\ payload = Nothing

(***************************************************************************)
(* POST /login                                                             *)
(***************************************************************************)
LoginHandler(clientKey, body) ==
    /\ scen' = ScenAfter(clientKey, body)
    /\ payload' = Nothing
    /\ UNCHANGED <<adminVars, fileVars, dataVars, columns, notesUiVars>>
    /\ IF Throttled(imageLoginAttempts[clientKey]) THEN
           /\ last' = LoginStep(clientKey, body, 429,
                  "Too many login attempts. Please try again later.", Absent)
           /\ UNCHANGED <<serverVars, issued, tokensSeen, revoked, fails>>
       ELSE IF body.kind # "array" THEN
           /\ last' = LoginStep(clientKey, body, 400,
                  "Image sequence is required and must be an array.", Absent)
           /\ UNCHANGED <<serverVars, issued, tokensSeen, revoked, fails>>
       ELSE IF isCorrect(body.seq) THEN
           LET token == TokenOf(body.seq) IN
           /\ imageLoginAttempts' = RecordSuccess(imageLoginAttempts, clientKey)
           /\ authenticatedUsers' = AddToken(authenticatedUsers, token, TRUE)
           /\ last' = LoginStep(clientKey, body, 200, "Login successful!",
                                Some(token))
           /\ issued' = issued \cup {token}
           /\ tokensSeen' = tokensSeen \cup {token}
           /\ revoked' = revoked \ {token}
           /\ fails' = [fails EXCEPT ![clientKey] = 0]
       ELSE
           /\ imageLoginAttempts' = RecordFailure(imageLoginAttempts, clientKey)
           /\ authenticatedUsers' =
                  AddToken(authenticatedUsers, TokenOf(body.seq), FALSE)
           /\ last' = LoginStep(clientKey, body, 401,
                                "Incorrect image sequence.", Absent)
           /\ fails' = [fails EXCEPT
                  ![clientKey] = Min(@ + 1, MAX_IMAGE_LOGIN_ATTEMPTS + 1)]
           /\ UNCHANGED <<issued, tokensSeen, revoked>>

\* A login sent by any HTTP client; the browser's storage is not involved.
PostLogin(clientKey, body) ==
    /\ LoginHandler(clientKey, body)
    /\ UNCHANGED <<authToken, boot, loginUiVars>>

(***************************************************************************)
(* Client: handleLogin and handleLogout of HomePage.                       *)
(***************************************************************************)
\* The login modal is rendered only while the client holds no token. The
\* clicked cells are sent as i + 1; the token of a 2xx answer is stored.
HandleLogin(clientKey, clicks) ==
    /\ ~Truthy(authToken)
    /\ Len(clicks) # 0
    /\ LoginHandler(clientKey,
           Arr([i \in 1..Len(clicks) |-> Num(clicks[i] + 1)]))
    /\ authToken' = IF last'.status = 200 THEN last'.token ELSE authToken
    /\ UNCHANGED <<boot, loginUiVars>>

\* The Logout button is rendered only while the client holds a token. It
\* removes the stored token; no request is sent to the server.
HandleLogout ==
    /\ Truthy(authToken)
    /\ authToken' = Absent
    /\ revoked' = revoked \cup {authToken[1]}
    /\ last' = LocalStep("handleLogout")
    /\ payload' = Nothing
    /\ UNCHANGED <<serverVars, boot, issued, tokensSeen, fails, scen,
                   adminVars, fileVars, dataVars, uiVars>>

(***************************************************************************)
(* A protected request: authenticateToken, then the route's handler.       *)
(***************************************************************************)
ProtectedHandler(op, authorization, queryToken) ==
    LET token == ExtractToken(authorization, queryToken)
        verdict == GatewayVerdict(token, authenticatedUsers)
    IN
    /\ last' =
           IF verdict = "missing" THEN
               Step(op, "-", NoBody, authorization, queryToken, 401,
                    "Authentication token required", Absent, Absent, FALSE)
           ELSE IF verdict = "pass" THEN
               Step(op, "-", NoBody, authorization, queryToken, 200,
                    "", Absent, token, TRUE)
           ELSE
               Step(op, "-", NoBody, authorization, queryToken, 403,
                    "Invalid or expired token", Absent, Absent, FALSE)
    /\ payload' =
           IF verdict # "pass" THEN Nothing
           ELSE IF op = "GET /notes" THEN Carry("notes", notesFile[token[1]])
           ELSE Carry("passwords", passwordsFile[token[1]])
    /\ UNCHANGED <<serverVars, authToken, columns, loginUiVars, boot,
                   histVars, adminVars, fileVars, dataVars>>

\* GET /notes or GET /passwords sent by anything but the client's sections.
Protected(op, authorization, queryToken) ==
    /\ ProtectedHandler(op, authorization, queryToken)
    /\ UNCHANGED notesUiVars

(***************************************************************************)
(* Restart of the server process: the in-memory state is built again, the  *)
(* browser's localStorage is kept.                                         *)
(***************************************************************************)
Restart ==
    /\ boot < MaxRestarts
    /\ boot' = boot + 1
    /\ imageLoginAttempts' = [o \in Origins |-> 0]
    /\ authenticatedUsers' = {}
    /\ last' = LocalStep("restart")
    /\ issued' = {}
    /\ fails' = [o \in Origins |-> 0]
    /\ scen' = FreshScen
    /\ adminPasswordAttempts' = [k \in Identities |-> 0]
    /\ adminPending' = EmptyBag
    /\ uploadStreams' = EmptyBag
    /\ payload' = Nothing
    /\ UNCHANGED <<authToken, uiVars, tokensSeen, revoked, uploadDir,
                   completed, dataVars>>

Next ==
    \/ \E o \in Origins, b \in LoginBodies : PostLogin(o, b)
    \/ \E o \in Origins, c \in ClickSeqs : HandleLogin(o, c)
    \/ HandleLogout
    \/ \E op \in ProtectedOps, h \in HeaderValues, q \in QueryValues :
           Protected(op, h, q)
    \/ Restart

Spec == Init /\ [][Next]_vars

(***************************************************************************)
(* The verifier on its own: logins only, over the lists related to the     *)
(* secret (its permutations, proper prefixes, proper extensions up to      *)
(* MaxSeqLen elements, the same digits sent as strings).                   *)
(***************************************************************************)
SecretDigits == {CORRECT_IMAGE_SEQUENCE[i].n : i \in DOMAIN CORRECT_IMAGE_SEQUENCE}
SecretLen == Len(CORRECT_IMAGE_SEQUENCE)

SecretPermutations ==
    {Nums(f) : f \in {g \in [1..SecretLen -> SecretDigits] :
                         \A i, j \in 1..SecretLen : i # j => g[i] # g[j]}}

ProperPrefixes == {SubSeq(CORRECT_IMAGE_SEQUENCE, 1, k) : k \in 0..(SecretLen - 1)}

Paddings ==
    UNION {{Nums(f) : f \in [1..k -> SecretDigits \cup {0}]} :
               k \in 1..(MaxSeqLen - SecretLen)}

ProperExtensions ==
    {CORRECT_IMAGE_SEQUENCE \o pad : pad \in Paddings}
        \cup {pad \o CORRECT_IMAGE_SEQUENCE : pad \in Paddings}

VerifierBodies ==
    {Arr(s) : s \in SecretPermutations \cup ProperPrefixes \cup ProperExtensions}
        \cup {Arr(Strs(<<2, 6, 4, 8>>)), Arr(WrongSequence), Missing, Scalar}

NextLogin == \E o \in Origins, b \in VerifierBodies : PostLogin(o, b)

SpecLogin == Init /\ [][NextLogin]_vars

(***************************************************************************)
(* Requests behind the gateway: what authenticateToken answers when it     *)
(* does not call next(), and the shape of a handler's answer.              *)
(***************************************************************************)
\* A JSON field of a request body: missing, a string, or a number.
JStr(s) == [kind |-> "string", seq |-> <<s>>]
JNum == [kind |-> "number", seq |-> <<"7">>]

\* !value for such a field (the number sent is not 0)
Falsy(field) == field.kind = "missing" \/ field = JStr("")

\* A gateway that also wants the identity's admin throttle to be open.
PassesUnlessAdminThrottled(authorization, queryToken) ==
    LET token == ExtractToken(authorization, queryToken) IN
    /\ GatewayVerdict(token, authenticatedUsers) = "pass"
    /\ adminPasswordAttempts[token[1]] < MAX_ADMIN_PASSWORD_ATTEMPTS

Passes(authorization, queryToken) ==
    GatewayVerdict(ExtractToken(authorization, queryToken),
                   authenticatedUsers) = "pass"

Rejection(op, body, authorization, queryToken) ==
    IF GatewayVerdict(ExtractToken(authorization, queryToken),
                      authenticatedUsers) = "missing"
    THEN Step(op, "-", body, authorization, queryToken, 401,
              "Authentication token required", Absent, Absent, FALSE)
    ELSE Step(op, "-", body, authorization, queryToken, 403,
              "Invalid or expired token", Absent, Absent, FALSE)

\* The answer of a handler that ran with req.user = { id: token }. A status
\* of 0 stands for a handler that is suspended and has not answered yet.
Answer(op, body, authorization, queryToken, status, message) ==
    Step(op, "-", body, authorization, queryToken, status, message, Absent,
         ExtractToken(authorization, queryToken), TRUE)

(***************************************************************************)
(* POST /admin/check-password. The handler is async: it runs up to         *)
(* await bcrypt.compare(...), other handlers run while the hash is         *)
(* computed, and it is resumed with the verdict.                           *)
(***************************************************************************)
AdminOp == "POST /admin/check-password"
AdminResumedOp == "POST /admin/check-password (resumed)"

\* An admin throttle test that is off by one (> instead of >=).
AdminThrottledOffByOne(count) == count > MAX_ADMIN_PASSWORD_ATTEMPTS

\* adminPasswordAttempts[clientKey] >= MAX_ADMIN_PASSWORD_ATTEMPTS
AdminThrottled(count) == count >= MAX_ADMIN_PASSWORD_ATTEMPTS

\* bcrypt.compare(password, ADMIN_PASSWORD_HASH), the hash being that of
\* ADMIN_PASSWORD: it rejects when the data is not a string.
Compare(password) ==
    IF password.kind # "string" THEN "error"
    ELSE IF password.seq[1] = ADMIN_PASSWORD THEN "match"
    ELSE "mismatch"

\* A failed admin check that is not counted.
AdminRecordFailureLost(attempts, clientKey) == attempts

\* adminPasswordAttempts[clientKey]++
AdminRecordFailure(attempts, clientKey) ==
    [attempts EXCEPT ![clientKey] = @ + 1]

\* adminPasswordAttempts[clientKey] = 0
AdminRecordSuccess(attempts, clientKey) == [attempts EXCEPT ![clientKey] = 0]

\* A 400 answer that is also counted as a failed attempt.
AfterBadRequestCounted(attempts, clientKey) ==
    [attempts EXCEPT ![clientKey] = @ + 1]

\* return res.status(400)...: the counters are as they were.
AfterBadRequest(attempts, clientKey) == attempts

\* The handler up to its first answer or to the await.
AdminCheckPassword(authorization, password) ==
    LET token == ExtractToken(authorization, Absent)
        clientKey == token[1]
    IN
    /\ payload' = Nothing
    /\ UNCHANGED <<serverVars, authToken, uiVars, boot, histVars, fileVars, dataVars>>
    /\ IF ~Passes(authorization, Absent) THEN
           /\ last' = Rejection(AdminOp, password, authorization, Absent)
           /\ UNCHANGED adminVars
       ELSE IF AdminThrottled(adminPasswordAttempts[clientKey]) THEN
           /\ last' = Answer(AdminOp, password, authorization, Absent, 429,
                  "Too many admin password attempts. Please try again later.")
           /\ UNCHANGED adminVars
       ELSE IF Falsy(password) THEN
           /\ last' = Answer(AdminOp, password, authorization, Absent, 400,
                             "Password is required.")
           /\ adminPasswordAttempts' =
                  AfterBadRequest(adminPasswordAttempts, clientKey)
           /\ UNCHANGED adminPending
       ELSE
           /\ BagCardinality(adminPending) < MaxInflight
           /\ adminPending' = adminPending (+)
                  SetToBag({[clientKey |-> clientKey, password |-> password]})
           /\ last' = Answer(AdminOp, password, authorization, Absent, 0, "")
           /\ UNCHANGED adminPasswordAttempts

\* The rest of the handler, once bcrypt.compare has settled.
AdminResume(request) ==
    LET outcome == Compare(request.password)
        clientKey == request.clientKey
    IN
    /\ BagIn(request, adminPending)
    /\ adminPending' = adminPending (-) SetToBag({request})
    /\ adminPasswordAttempts' =
           IF outcome = "match" THEN
               AdminRecordSuccess(adminPasswordAttempts, clientKey)
           ELSE IF outcome = "mismatch" THEN
               AdminRecordFailure(adminPasswordAttempts, clientKey)
           ELSE adminPasswordAttempts
    /\ last' =
           IF outcome = "match" THEN
               Answer(AdminResumedOp, request.password, Some(clientKey),
                      Absent, 200, "")
           ELSE IF outcome = "mismatch" THEN
               Answer(AdminResumedOp, request.password, Some(clientKey),
                      Absent, 403, "Incorrect admin password.")
           ELSE
               Answer(AdminResumedOp, request.password, Some(clientKey),
                      Absent, 500, "Error verifying password.")
    /\ payload' = Nothing
    /\ UNCHANGED <<serverVars, authToken, uiVars, boot, histVars, fileVars, dataVars>>

\* The two throttles together: logins from both origins, admin checks with
\* and without a valid token, restarts.
AdminLoginBodies ==
    {Missing, Scalar, Arr(CORRECT_IMAGE_SEQUENCE), Arr(WrongSequence)}
AdminHeaders == {Absent, Some(ValidToken), Some(ForgedToken)}
AdminPasswords ==
    {Missing, JStr(""), JStr(ADMIN_PASSWORD), JStr("guess"), JNum}

NextAdmin ==
    \/ \E o \in Origins, b \in AdminLoginBodies : PostLogin(o, b)
    \/ \E h \in AdminHeaders, p \in AdminPasswords : AdminCheckPassword(h, p)
    \/ \E r \in BagToSet(adminPending) : AdminResume(r)
    \/ Restart

SpecAdmin == Init /\ [][NextAdmin]_vars

(***************************************************************************)
(* The upload directory. multer's disk storage (lines 92-105) opens a      *)
(* write stream on path.join(UPLOAD_DIR, file.originalname), which creates *)
(* or truncates that file, and pipes the file part into it chunk by chunk, *)
(* each stream at its own position; the route's handler runs when the      *)
(* stream has finished. A file is a sequence of chunks of one size.        *)
(***************************************************************************)
\* Paths below the application directory, as lists of segments.
UPLOAD_DIR == <<"app", "uploads">>
DATA_DIR == <<"app", "data">>
NOTES_FILE == DATA_DIR \o <<"notes.json">>
PASSWORDS_FILE == DATA_DIR \o <<"passwords.json">>

\* The names sent as :filename that hold path separators, as Express hands
\* them to the handler (%2F decoded to /).
NotesTraversal == "../data/notes.json"
PasswordsTraversal == "../data/passwords.json"

\* req.params.filename cut at the path separators.
Segments(filename) ==
    IF filename = NotesTraversal THEN <<"..", "data", "notes.json">>
    ELSE IF filename = PasswordsTraversal THEN <<"..", "data", "passwords.json">>
    ELSE <<filename>>

\* path.normalize: "." is dropped and ".." removes the segment before it.
RECURSIVE Normalize(_, _)
Normalize(done, rest) ==
    IF rest = <<>> THEN done
    ELSE IF Head(rest) = ".." THEN
        Normalize(IF done = <<>> THEN <<>> ELSE SubSeq(done, 1, Len(done) - 1),
                  Tail(rest))
    ELSE IF Head(rest) = "." THEN Normalize(done, Tail(rest))
    ELSE Normalize(Append(done, Head(rest)), Tail(rest))

\* path.join(base, filename)
PathJoin(base, filename) == Normalize(<<>>, base \o Segments(filename))

\* The path names a file directly inside the directory.
Inside(dir, path) ==
    /\ Len(path) = Len(dir) + 1
    /\ SubSeq(path, 1, Len(dir)) = dir

\* fs.access(filePath, F_OK) succeeds on a regular file.
FileExists(path) ==
    \/ Inside(UPLOAD_DIR, path) /\ path[Len(path)] \in DOMAIN uploadDir
    \/ Inside(DATA_DIR, path) /\ path[Len(path)] \in dataFiles

\* What a read of the whole file gives.
FileContent(path) ==
    IF Inside(UPLOAD_DIR, path) THEN Carry("file", uploadDir[path[Len(path)]])
    ELSE IF path = NOTES_FILE THEN Carry("notes.json", notesFile)
    ELSE Carry("passwords.json", passwordsFile)

UploadOp == "POST /upload"
UploadWriteOp == "POST /upload (write)"
UploadEndOp == "POST /upload (finished)"
DownloadOp == "GET /download/:filename"

FileNames == {"a.png", "b.txt"}
Contents == {<<"a1", "a2">>, <<"b1", "b2">>}

\* The part named 'file' of a multipart body: its originalname and its data.
FilePart(name, data) == [kind |-> "file", seq |-> <<name>> \o data]
FileParts == {FilePart(n, d) : n \in FileNames, d \in Contents}
\* req.params.filename
Param(name) == [kind |-> "param", seq |-> <<name>>]

\* The chunk that reads as zeros where a write landed beyond the end.
Hole == "00"

\* write(fd, chunk) at the stream's own position (chunk index pos).
WriteAt(content, pos, chunk) ==
    IF pos <= Len(content) THEN [content EXCEPT ![pos] = chunk]
    ELSE content \o [i \in 1..(pos - Len(content) - 1) |-> Hole] \o <<chunk>>

\* authenticateToken, then upload.single('file') up to the open of the
\* write stream; without a file part the handler answers at once.
UploadBegin(authorization, queryToken, file) ==
    /\ payload' = Nothing
    /\ UNCHANGED <<serverVars, authToken, uiVars, boot, histVars, adminVars, dataVars>>
    /\ IF ~Passes(authorization, queryToken) THEN
           /\ last' = Rejection(UploadOp, file, authorization, queryToken)
           /\ UNCHANGED fileVars
       ELSE IF file.kind # "file" THEN
           /\ last' = Answer(UploadOp, file, authorization, queryToken, 400,
                             "No file uploaded.")
           /\ UNCHANGED fileVars
       ELSE
           LET name == Head(file.seq)
               stream == [name |-> name, data |-> Tail(file.seq), pos |-> 0,
                          user |-> ExtractToken(authorization, queryToken)]
           IN
           /\ BagCardinality(uploadStreams) < MaxUploads
           /\ uploadDir' = (name :> <<>>) @@ uploadDir
           /\ uploadStreams' = uploadStreams (+) SetToBag({stream})
           /\ last' = Answer(UploadOp, file, authorization, queryToken, 0, "")
           /\ UNCHANGED completed

\* One chunk of a running upload reaches the file.
UploadWrite(stream) ==
    /\ BagIn(stream, uploadStreams)
    /\ stream.pos < Len(stream.data)
    /\ uploadDir' = [uploadDir EXCEPT ![stream.name] =
           WriteAt(@, stream.pos + 1, stream.data[stream.pos + 1])]
    /\ uploadStreams' = (uploadStreams (-) SetToBag({stream}))
           (+) SetToBag({[stream EXCEPT !.pos = @ + 1]})
    /\ last' = Answer(UploadWriteOp, FilePart(stream.name, stream.data),
                      stream.user, Absent, 0, "")
    /\ payload' = Nothing
    /\ UNCHANGED <<serverVars, authToken, uiVars, boot, histVars, adminVars, dataVars,
                   completed>>

\* The stream has finished: the handler of lines 229-235 answers.
UploadEnd(stream) ==
    /\ BagIn(stream, uploadStreams)
    /\ stream.pos = Len(stream.data)
    /\ uploadStreams' = uploadStreams (-) SetToBag({stream})
    /\ completed' = (stream.name :> stream.data) @@ completed
    /\ last' = Answer(UploadEndOp, FilePart(stream.name, stream.data),
                      stream.user, Absent, 200, "File uploaded successfully!")
    /\ payload' = Nothing
    /\ UNCHANGED <<serverVars, authToken, uiVars, boot, histVars, adminVars, dataVars,
                   uploadDir>>

\* GET /download/:filename and GET /images/:filename: authenticateToken,
\* fs.access on path.join(UPLOAD_DIR, filename), then the file is streamed.
ServeAnswer(op, notFound, authorization, queryToken, filename) ==
    IF ~Passes(authorization, queryToken) THEN
        Rejection(op, Param(filename), authorization, queryToken)
    ELSE IF ~FileExists(PathJoin(UPLOAD_DIR, filename)) THEN
        Answer(op, Param(filename), authorization, queryToken, 404, notFound)
    ELSE
        Answer(op, Param(filename), authorization, queryToken, 200, "")

ServeCarries(authorization, queryToken, filename) ==
    IF /\ Passes(authorization, queryToken)
       /\ FileExists(PathJoin(UPLOAD_DIR, filename))
    THEN FileContent(PathJoin(UPLOAD_DIR, filename))
    ELSE Nothing

Download(authorization, queryToken, filename) ==
    /\ last' = ServeAnswer(DownloadOp, "File not found.", authorization,
                           queryToken, filename)
    /\ payload' = ServeCarries(authorization, queryToken, filename)
    /\ UNCHANGED <<serverVars, authToken, uiVars, boot, histVars, adminVars,
                   dataVars, fileVars>>

\* Uploads and downloads of one logged-in client and of a caller without a
\* token.
FileHeaders == {Absent, Some(ValidToken)}

NextFiles ==
    \/ PostLogin("10.0.0.1", Arr(CORRECT_IMAGE_SEQUENCE))
    \/ \E h \in FileHeaders, f \in FileParts \cup {Missing} :
           UploadBegin(h, Absent, f)
    \/ \E s \in BagToSet(uploadStreams) : UploadWrite(s)
    \/ \E s \in BagToSet(uploadStreams) : UploadEnd(s)
    \/ \E h \in FileHeaders, n \in FileNames : Download(h, Absent, n)

SpecFiles == Init /\ [][NextFiles]_vars

(***************************************************************************)
(* GET /files and GET /images/:filename.                                   *)
(***************************************************************************)
FilesOp == "GET /files"
ImagesOp == "GET /images/:filename"

\* A listing of the files whose upload has finished only.
RegularFilesFinished(dir) == DOMAIN dir \cap DOMAIN completed

\* fs.readdir, then the names whose statSync(...).isFile() holds: the upload
\* directory holds regular files only.
RegularFiles(dir) == DOMAIN dir

FilesHandler(authorization, queryToken) ==
    /\ UNCHANGED <<serverVars, authToken, boot, histVars, adminVars, dataVars,
                   fileVars>>
    /\ IF ~Passes(authorization, queryToken) THEN
           /\ last' = Rejection(FilesOp, NoBody, authorization, queryToken)
           /\ payload' = Nothing
       ELSE
           /\ last' = Answer(FilesOp, NoBody, authorization, queryToken,
                             200, "")
           /\ payload' = Carry("files", RegularFiles(uploadDir))

\* GET /files sent by anything but the client's file columns.
FilesList(authorization, queryToken) ==
    /\ FilesHandler(authorization, queryToken)
    /\ UNCHANGED uiVars

Images(authorization, queryToken, filename) ==
    /\ last' = ServeAnswer(ImagesOp, "Image not found.", authorization,
                           queryToken, filename)
    /\ payload' = ServeCarries(authorization, queryToken, filename)
    /\ UNCHANGED <<serverVars, authToken, uiVars, boot, histVars, adminVars,
                   dataVars, fileVars>>

(***************************************************************************)
(* The notes and the password vault: one JSON file each, read whole and    *)
(* written whole by every handler (readData, writeData), keyed by          *)
(* req.user.id. An entry's id is Date.now().toString().                    *)
(***************************************************************************)
NotesPostOp == "POST /notes"
NotesPutOp == "PUT /notes/:id"
NotesDeleteOp == "DELETE /notes/:id"
PasswordsPostOp == "POST /passwords"
PasswordsDeleteOp == "DELETE /passwords/:id"

\* list.findIndex(e => e.id === id) + 1, 0 when there is none.
FindIndex(list, id) ==
    IF \E i \in DOMAIN list : list[i].id = id
    THEN CHOOSE i \in DOMAIN list :
             /\ list[i].id = id
             /\ \A j \in 1..(i - 1) : list[j].id # id
    ELSE 0

\* list.splice(idx, 1)
Splice(list, idx) == SubSeq(list, 1, idx - 1) \o SubSeq(list, idx + 1, Len(list))

\* The body of POST /passwords: name, username, password; "" for a field
\* that is missing or empty.
Entry(name, username, password) ==
    [kind |-> "entry", seq |-> <<name, username, password>>]

NotesPostHandler(authorization, queryToken, content) ==
    LET user == ExtractToken(authorization, queryToken) IN
    /\ UNCHANGED <<serverVars, authToken, columns, loginUiVars, boot,
                   histVars, adminVars, fileVars, passwordsFile, now>>
    /\ IF ~Passes(authorization, queryToken) THEN
           /\ last' = Rejection(NotesPostOp, content, authorization, queryToken)
           /\ payload' = Nothing
           /\ UNCHANGED notesFile
       ELSE IF content.kind # "string" THEN
           /\ last' = Answer(NotesPostOp, content, authorization, queryToken,
                  400, "Content is required and must be a string.")
           /\ payload' = Nothing
           /\ UNCHANGED notesFile
       ELSE
           LET entry == [id |-> ToString(now), content |-> content.seq[1]] IN
           /\ Len(notesFile[user[1]]) < MaxEntries
           /\ notesFile' = [notesFile EXCEPT ![user[1]] = Append(@, entry)]
           /\ last' = Answer(NotesPostOp, content, authorization, queryToken,
                             200, "")
           /\ payload' = Carry("notes", <<entry>>)
    \* writeData creates the file when it does not exist yet
    /\ dataFiles' = IF notesFile' # notesFile
                    THEN dataFiles \cup {"notes.json"} ELSE dataFiles

\* The request sent by anything but the client's notes section.
NotesPost(authorization, queryToken, content) ==
    /\ NotesPostHandler(authorization, queryToken, content)
    /\ UNCHANGED notesUiVars

NotesPutHandler(authorization, queryToken, id, content) ==
    LET user == ExtractToken(authorization, queryToken)
        body == [kind |-> content.kind, seq |-> <<id>> \o content.seq]
    IN
    /\ UNCHANGED <<serverVars, authToken, columns, loginUiVars, boot,
                   histVars, adminVars, fileVars, passwordsFile, now>>
    /\ IF ~Passes(authorization, queryToken) THEN
           /\ last' = Rejection(NotesPutOp, body, authorization, queryToken)
           /\ payload' = Nothing
           /\ UNCHANGED notesFile
       ELSE IF content.kind # "string" THEN
           /\ last' = Answer(NotesPutOp, body, authorization, queryToken,
                  400, "Content is required and must be a string.")
           /\ payload' = Nothing
           /\ UNCHANGED notesFile
       ELSE IF FindIndex(notesFile[user[1]], id) = 0 THEN
           /\ last' = Answer(NotesPutOp, body, authorization, queryToken,
                             404, "Note not found.")
           /\ payload' = Nothing
           /\ UNCHANGED notesFile
       ELSE
           LET idx == FindIndex(notesFile[user[1]], id)
               note == [id |-> id, content |-> content.seq[1]]
           IN
           /\ notesFile' = [notesFile EXCEPT ![user[1]][idx] = note]
           /\ last' = Answer(NotesPutOp, body, authorization, queryToken,
                             200, "")
           /\ payload' = Carry("notes", <<note>>)
    \* writeData creates the file when it does not exist yet
    /\ dataFiles' = IF notesFile' # notesFile
                    THEN dataFiles \cup {"notes.json"} ELSE dataFiles

\* The request sent by anything but the client's notes section.
NotesPut(authorization, queryToken, id, content) ==
    /\ NotesPutHandler(authorization, queryToken, id, content)
    /\ UNCHANGED notesUiVars

NotesDeleteHandler(authorization, queryToken, id) ==
    LET user == ExtractToken(authorization, queryToken) IN
    /\ payload' = Nothing
    /\ UNCHANGED <<serverVars, authToken, columns, loginUiVars, boot,
                   histVars, adminVars, fileVars, passwordsFile, now>>
    /\ IF ~Passes(authorization, queryToken) THEN
           /\ last' = Rejection(NotesDeleteOp, Param(id), authorization,
                                queryToken)
           /\ UNCHANGED notesFile
       ELSE IF FindIndex(notesFile[user[1]], id) = 0 THEN
           /\ last' = Answer(NotesDeleteOp, Param(id), authorization,
                             queryToken, 404, "Note not found.")
           /\ UNCHANGED notesFile
       ELSE
           /\ notesFile' = [notesFile EXCEPT ![user[1]] =
                  Splice(@, FindIndex(@, id))]
           /\ last' = Answer(NotesDeleteOp, Param(id), authorization,
                             queryToken, 200, "Note deleted.")
    \* writeData creates the file when it does not exist yet
    /\ dataFiles' = IF notesFile' # notesFile
                    THEN dataFiles \cup {"notes.json"} ELSE dataFiles

\* The request sent by anything but the client's notes section.
NotesDelete(authorization, queryToken, id) ==
    /\ NotesDeleteHandler(authorization, queryToken, id)
    /\ UNCHANGED notesUiVars

PasswordsPost(authorization, queryToken, body) ==
    LET user == ExtractToken(authorization, queryToken) IN
    /\ UNCHANGED <<serverVars, authToken, uiVars, boot, histVars, adminVars, fileVars,
                   notesFile, now>>
    /\ IF ~Passes(authorization, queryToken) THEN
           /\ last' = Rejection(PasswordsPostOp, body, authorization,
                                queryToken)
           /\ payload' = Nothing
           /\ UNCHANGED passwordsFile
       ELSE IF \E i \in 1..3 : body.seq[i] = "" THEN
           /\ last' = Answer(PasswordsPostOp, body, authorization, queryToken,
                             400, "Missing required fields.")
           /\ payload' = Nothing
           /\ UNCHANGED passwordsFile
       ELSE
           LET entry == [id |-> ToString(now), name |-> body.seq[1],
                         link |-> "", username |-> body.seq[2],
                         password |-> body.seq[3]]
           IN
           /\ Len(passwordsFile[user[1]]) < MaxEntries
           /\ passwordsFile' =
                  [passwordsFile EXCEPT ![user[1]] = Append(@, entry)]
           /\ last' = Answer(PasswordsPostOp, body, authorization, queryToken,
                             200, "")
           /\ payload' = Carry("passwords", <<entry>>)
    \* writeData creates the file when it does not exist yet
    /\ dataFiles' = IF passwordsFile' # passwordsFile
                    THEN dataFiles \cup {"passwords.json"} ELSE dataFiles

PasswordsDelete(authorization, queryToken, id) ==
    LET user == ExtractToken(authorization, queryToken) IN
    /\ payload' = Nothing
    /\ UNCHANGED <<serverVars, authToken, uiVars, boot, histVars, adminVars, fileVars,
                   notesFile, now>>
    /\ IF ~Passes(authorization, queryToken) THEN
           /\ last' = Rejection(PasswordsDeleteOp, Param(id), authorization,
                                queryToken)
           /\ UNCHANGED passwordsFile
       ELSE IF FindIndex(passwordsFile[user[1]], id) = 0 THEN
           /\ last' = Answer(PasswordsDeleteOp, Param(id), authorization,
                             queryToken, 404, "Password not found.")
           /\ UNCHANGED passwordsFile
       ELSE
           /\ passwordsFile' = [passwordsFile EXCEPT ![user[1]] =
                  Splice(@, FindIndex(@, id))]
           /\ last' = Answer(PasswordsDeleteOp, Param(id), authorization,
                             queryToken, 200, "Password deleted.")
    \* writeData creates the file when it does not exist yet
    /\ dataFiles' = IF passwordsFile' # passwordsFile
                    THEN dataFiles \cup {"passwords.json"} ELSE dataFiles

(***************************************************************************)
(* Every route behind the gateway, called with the token of a login (in a  *)
(* header), with a token that was never issued (in the query) and with     *)
(* none, before and after the login and after a restart, which empties the *)
(* session store and keeps the files. A request that passes the gateway is *)
(* an upload or an admin check only while no other one is running.         *)
(***************************************************************************)
GateCredentials ==
    {<<Absent, Absent>>, <<Some(ValidToken), Absent>>,
     <<Absent, Some(ForgedToken)>>}
GateFile == FilePart("a.png", <<"a1">>)
GateIds == {"0"}

NextGate ==
    \/ PostLogin("10.0.0.1", Arr(CORRECT_IMAGE_SEQUENCE))
    \/ \E c \in GateCredentials :
           /\ Passes(c[1], c[2]) => uploadStreams = EmptyBag
           /\ UploadBegin(c[1], c[2], GateFile)
    \/ \E s \in BagToSet(uploadStreams) : UploadWrite(s)
    \/ \E s \in BagToSet(uploadStreams) : UploadEnd(s)
    \/ \E c \in GateCredentials : Download(c[1], c[2], "a.png")
    \/ \E c \in GateCredentials : Images(c[1], c[2], "a.png")
    \/ \E c \in GateCredentials : FilesList(c[1], c[2])
    \/ \E c \in GateCredentials, op \in ProtectedOps : Protected(op, c[1], c[2])
    \/ \E c \in GateCredentials : NotesPost(c[1], c[2], JStr("x"))
    \/ \E c \in GateCredentials, i \in GateIds :
           NotesPut(c[1], c[2], i, JStr("x"))
    \/ \E c \in GateCredentials, i \in GateIds : NotesDelete(c[1], c[2], i)
    \/ \E c \in GateCredentials :
           PasswordsPost(c[1], c[2], Entry("site", "me", "pw"))
    \/ \E c \in GateCredentials, i \in GateIds :
           PasswordsDelete(c[1], c[2], i)
    \/ \E c \in GateCredentials :
           /\ Passes(c[1], c[2]) => adminPending = EmptyBag
           /\ AdminCheckPassword(c[1], JStr("guess"))
    \/ \E r \in BagToSet(adminPending) : AdminResume(r)
    \/ Restart

SpecGate == Init /\ [][NextGate]_vars

(***************************************************************************)
(* The data routes next to the admin check: one process in which the admin *)
(* password is never tried, tried wrongly up to the ceiling, or tried      *)
(* rightly, while the vault, the notes and the files are read and written. *)
(***************************************************************************)
VaultCredentials == {<<Some(ValidToken), Absent>>, <<Absent, Some(ForgedToken)>>}
VaultPasswords == {"guess", ADMIN_PASSWORD}

NextVault ==
    \/ PostLogin("10.0.0.1", Arr(CORRECT_IMAGE_SEQUENCE))
    \/ \E c \in VaultCredentials, password \in VaultPasswords :
           /\ Passes(c[1], c[2]) => adminPending = EmptyBag
           /\ AdminCheckPassword(c[1], JStr(password))
    \/ \E r \in BagToSet(adminPending) : AdminResume(r)
    \/ \E c \in VaultCredentials, op \in ProtectedOps : Protected(op, c[1], c[2])
    \/ \E c \in VaultCredentials : NotesPost(c[1], c[2], JStr("x"))
    \/ \E c \in VaultCredentials, i \in GateIds :
           NotesPut(c[1], c[2], i, JStr("y"))
    \/ \E c \in VaultCredentials, i \in GateIds : NotesDelete(c[1], c[2], i)
    \/ \E c \in VaultCredentials :
           PasswordsPost(c[1], c[2], Entry("site", "me", "pw"))
    \/ \E c \in VaultCredentials, i \in GateIds :
           PasswordsDelete(c[1], c[2], i)
    \/ \E c \in VaultCredentials :
           /\ Passes(c[1], c[2]) => uploadStreams = EmptyBag
           /\ UploadBegin(c[1], c[2], GateFile)
    \/ \E s \in BagToSet(uploadStreams) : UploadWrite(s)
    \/ \E s \in BagToSet(uploadStreams) : UploadEnd(s)
    \/ \E c \in VaultCredentials : FilesList(c[1], c[2])
    \/ \E c \in VaultCredentials : Download(c[1], c[2], "a.png")
    \/ \E c \in VaultCredentials : Images(c[1], c[2], "a.png")

SpecVault == Init /\ [][NextVault]_vars

(***************************************************************************)
(* The record stores over time: one client logs in, creates, changes and   *)
(* deletes notes and vault entries, and the millisecond clock advances     *)
(* between some of the requests and not between others.                    *)
(***************************************************************************)
\* Date.now() has moved to the next millisecond.
Tick ==
    /\ now < MaxClock
    /\ now' = now + 1
    /\ UNCHANGED <<serverVars, authToken, uiVars, boot, last, histVars,
                   adminVars, fileVars, notesFile, passwordsFile, dataFiles,
                   payload>>

NotesCredentials == {<<Absent, Absent>>, <<Some(ValidToken), Absent>>}
NotesIds == {ToString(n) : n \in 0..MaxClock}

NextNotes ==
    \/ PostLogin("10.0.0.1", Arr(CORRECT_IMAGE_SEQUENCE))
    \/ Tick
    \/ \E c \in NotesCredentials : NotesPost(c[1], c[2], JStr("x"))
    \/ \E c \in NotesCredentials, i \in NotesIds :
           NotesPut(c[1], c[2], i, JStr("y"))
    \/ \E c \in NotesCredentials, i \in NotesIds : NotesDelete(c[1], c[2], i)
    \/ \E c \in NotesCredentials :
           PasswordsPost(c[1], c[2], Entry("site", "me", "pw"))
    \/ \E c \in NotesCredentials, i \in NotesIds :
           PasswordsDelete(c[1], c[2], i)

SpecNotes == Init /\ [][NextNotes]_vars

(***************************************************************************)
(* The client's two file columns (Homepage.js, FileColumn). Each column    *)
(* fetches the listing with the stored token and keeps the names that its  *)
(* fileTypeFilter selects. File names are strings of characters; the       *)
(* string methods are computed as JavaScript computes them.                *)
(***************************************************************************)
UpperCase == "ABCDEFGHIJKLMNOPQRSTUVWXYZ"
LowerCase == "abcdefghijklmnopqrstuvwxyz"
CharAt(s, i) == SubSeq(s, i + 1, i + 1)

\* String.prototype.lastIndexOf: 0-based, -1 when ch does not occur.
LastIndexOf(s, ch) ==
    LET hits == {i \in 0..(Len(s) - 1) : CharAt(s, i) = ch} IN
    IF hits = {} THEN -1 ELSE CHOOSE i \in hits : \A j \in hits : j <= i

\* String.prototype.substring(start): a negative start counts as 0.
Substring(s, start) ==
    SubSeq(s, (IF start < 0 THEN 0 ELSE start) + 1, Len(s))

\* The lower-case letter of every upper-case letter.
LowerOf ==
    [ch \in {CharAt(UpperCase, i) : i \in 0..25} |->
        CharAt(LowerCase, CHOOSE i \in 0..25 : CharAt(UpperCase, i) = ch)]

\* String.prototype.toLowerCase
RECURSIVE ToLowerCase(_)
ToLowerCase(s) ==
    IF s = "" THEN ""
    ELSE LET ch == CharAt(s, 0) IN
         (IF ch \in DOMAIN LowerOf THEN LowerOf[ch] ELSE ch)
             \o ToLowerCase(Substring(s, 1))

imageExtensions == {".jpg", ".jpeg", ".png", ".gif", ".svg", ".webp"}

\* An extension that is compared as it is written.
ExtensionAsWritten(file) == Substring(file, LastIndexOf(file, "."))

\* file.substring(file.lastIndexOf('.')).toLowerCase()
Extension(file) == ToLowerCase(Substring(file, LastIndexOf(file, ".")))

isImage(file) == Extension(file) \in imageExtensions

\* data.files.filter(...)
filteredFiles(files, fileTypeFilter) ==
    {file \in files :
        IF fileTypeFilter = "image" THEN isImage(file) ELSE ~isImage(file)}

\* fetchAndFilterFiles of the column with this filter: nothing is sent
\* without a token; a response that is not ok leaves the column as it is.
fetchAndFilterFiles(fileTypeFilter) ==
    /\ Truthy(authToken)
    /\ FilesHandler(authToken, Absent)
    /\ columns' = IF last'.status = 200
                  THEN [columns EXCEPT
                          ![fileTypeFilter] =
                              filteredFiles(payload'.data, fileTypeFilter)]
                  ELSE columns
    /\ UNCHANGED <<loginUiVars, notesUiVars>>

ListingNames == {"a.png", "b.txt", "c.JPG", "png", "x.png.txt"}

NextListing ==
    \/ HandleLogin("10.0.0.1", <<1, 5, 3, 7>>)
    \/ HandleLogout
    \/ \E name \in ListingNames :
           /\ Truthy(authToken)
           /\ uploadStreams = EmptyBag
           /\ name \notin DOMAIN uploadDir
           /\ UploadBegin(authToken, Absent, FilePart(name, <<"d">>))
    \/ \E s \in BagToSet(uploadStreams) : UploadWrite(s)
    \/ \E s \in BagToSet(uploadStreams) : UploadEnd(s)
    \/ \E fileTypeFilter \in DOMAIN columns :
           fetchAndFilterFiles(fileTypeFilter)
    \/ Restart

SpecListing == Init /\ [][NextListing]_vars

(***************************************************************************)
(* The client's login modal (Homepage.js, HomePage and LoginModal): tile   *)
(* clicks, the Login and Reset buttons and the keydown listener, which are *)
(* there only while the client holds no token. handleLogin is suspended at *)
(* its fetch; what it does with the response is a step of its own. Every   *)
(* handler runs with the clickedSequence of the latest render.             *)
(***************************************************************************)
LoginResponseOp == "handleLogin (response)"

\* parseInt(event.key, 10) of the keys with '1' <= event.key <= '9'
DigitOf ==
    ("1" :> 1) @@ ("2" :> 2) @@ ("3" :> 3) @@ ("4" :> 4) @@ ("5" :> 5) @@
    ("6" :> 6) @@ ("7" :> 7) @@ ("8" :> 8) @@ ("9" :> 9)

\* A click handler that lets a fifth cell in.
handleImageClickOffByOne(sequence, index) ==
    IF Len(sequence) <= 4 THEN Append(sequence, index) ELSE sequence

\* if (clickedSequence.length < 4) setClickedSequence(prev => [...prev, index])
handleImageClick(sequence, index) ==
    IF Len(sequence) < 4 THEN Append(sequence, index) ELSE sequence

\* prev.slice(0, -1)
SliceLast(sequence) ==
    IF sequence = <<>> THEN <<>> ELSE SubSeq(sequence, 1, Len(sequence) - 1)

\* What the continuation of handleLogin gets: response.ok and data.token.
LoginResponse(step) == [ok |-> step.status = 200, token |-> step.token]

\* handleLogin up to its await: nothing is sent for an empty sequence; the
\* cells are sent as i + 1 and the server answers.
handleLogin(clientKey) ==
    /\ Len(clickedSequence) # 0
    /\ BagCardinality(loginFetches) < MaxInflight
    /\ LoginHandler(clientKey,
           Arr([i \in 1..Len(clickedSequence) |->
                   Num(clickedSequence[i] + 1)]))
    /\ loginFetches' = loginFetches (+) SetToBag({LoginResponse(last')})
    /\ UNCHANGED <<authToken, boot, clickedSequence>>

\* handleLogin after its await: the token of an ok response is stored, and
\* the sequence is emptied on both paths.
handleLoginResponse(response) ==
    /\ BagIn(response, loginFetches)
    /\ loginFetches' = loginFetches (-) SetToBag({response})
    /\ authToken' = IF response.ok THEN response.token ELSE authToken
    /\ clickedSequence' = <<>>
    /\ last' = LocalStep(LoginResponseOp)
    /\ payload' = Nothing
    /\ UNCHANGED <<serverVars, boot, histVars, adminVars, fileVars, dataVars,
                   columns, notesUiVars>>

\* A step of the modal that touches nothing but the clicked sequence.
SetClickedSequence(sequence) ==
    /\ clickedSequence' = sequence
    /\ UNCHANGED <<serverVars, authToken, boot, last, histVars, adminVars,
                   fileVars, dataVars, columns, loginFetches, notesUiVars,
                   payload>>

\* onClick of a tile
ImageClick(index) ==
    /\ ~Truthy(authToken)
    /\ SetClickedSequence(handleImageClick(clickedSequence, index))

\* onClick of the Login button
LoginClick(clientKey) ==
    /\ ~Truthy(authToken)
    /\ handleLogin(clientKey)

\* onClick of the Reset button
ResetClick ==
    /\ ~Truthy(authToken)
    /\ SetClickedSequence(<<>>)

\* The keydown listener of the window
handleKeyDown(clientKey, key) ==
    /\ ~Truthy(authToken)
    /\ IF key \in DOMAIN DigitOf THEN
           SetClickedSequence(handleImageClick(clickedSequence,
                                               DigitOf[key] - 1))
       ELSE IF key = "Enter" THEN
           IF Len(clickedSequence) = 0 THEN UNCHANGED vars
           ELSE handleLogin(clientKey)
       ELSE IF key = "Backspace" THEN
           SetClickedSequence(SliceLast(clickedSequence))
       ELSE UNCHANGED vars

\* The user goes for the secret and slips: the digit typed next is the digit
\* of the secret at that place or the digit 1.
SecretKeys == <<"2", "6", "4", "8">>
UserDigits(sequence) ==
    {"1", SecretKeys[IF Len(sequence) < 4 THEN Len(sequence) + 1 ELSE 4]}
OtherKeys == {"Enter", "Backspace", "Escape"}

NextModal ==
    \/ \E key \in UserDigits(clickedSequence) : ImageClick(DigitOf[key] - 1)
    \/ LoginClick("10.0.0.1")
    \/ ResetClick
    \/ \E key \in UserDigits(clickedSequence) \cup OtherKeys :
           handleKeyDown("10.0.0.1", key)
    \/ \E response \in BagToSet(loginFetches) : handleLoginResponse(response)

SpecModal == Init /\ [][NextModal]_vars

(***************************************************************************)
(* The client's notes section (Homepage.js, NotesSection). Each handler is *)
(* an async function that closes over the notes of the render in which it  *)
(* was called: what it does after its await is a step of its own, taken    *)
(* when the server handles the request, and it writes the list from that   *)
(* closure. Other handlers run while a request is in flight.               *)
(***************************************************************************)
\* A running handler: what it sent and the values it closed over.
NoteFetch(kind, id, content, closure, originalContent) ==
    [kind |-> kind, id |-> id, content |-> content, notes |-> closure,
     originalContent |-> originalContent]

\* notes.map(note => note.id === id ? { ...note, content } : note)
MapContent(list, id, content) ==
    [i \in DOMAIN list |->
        IF list[i].id = id THEN [list[i] EXCEPT !.content = content]
        ELSE list[i]]

\* notes.filter(note => note.id !== id)
RECURSIVE FilterOut(_, _)
FilterOut(list, id) ==
    IF list = <<>> THEN <<>>
    ELSE IF Head(list).id = id THEN FilterOut(Tail(list), id)
    ELSE <<Head(list)>> \o FilterOut(Tail(list), id)

\* notes.find(note => note.id === id), then its content or ''
OriginalContent(list, id) ==
    IF FindIndex(list, id) = 0 THEN "" ELSE list[FindIndex(list, id)].content

\* A handler of the section starts: the list shown becomes shown, and the
\* request leaves with the handler's closure.
NoteHandlerStarts(fetch, shown) ==
    /\ Truthy(authToken)
    /\ BagCardinality(noteFetches) < MaxInflight
    /\ notes' = shown
    /\ noteFetches' = noteFetches (+) SetToBag({fetch})
    /\ UNCHANGED <<serverVars, authToken, boot, last, histVars, adminVars,
                   fileVars, dataVars, columns, loginUiVars, payload>>

\* The effect that runs when the section is mounted with a token.
fetchNotes ==
    /\ Truthy(authToken)
    /\ noteFetches = EmptyBag
    /\ ProtectedHandler("GET /notes", authToken, Absent)
    /\ notes' = IF last'.status = 200 THEN payload'.data ELSE notes
    /\ UNCHANGED noteFetches

\* addNote up to its await
addNote ==
    NoteHandlerStarts(NoteFetch("add", "", "", notes, ""), notes)

\* addNote after its await: setNotes([...notes, data.note]) when ok
addNoteResponse(fetch) ==
    /\ BagIn(fetch, noteFetches) /\ fetch.kind = "add"
    /\ NotesPostHandler(authToken, Absent, JStr(fetch.content))
    /\ noteFetches' = noteFetches (-) SetToBag({fetch})
    /\ notes' = IF last'.status = 200
                THEN Append(fetch.notes, payload'.data[1]) ELSE notes

\* handleNoteChange up to its await: the list is updated before the request
handleNoteChange(id, content) ==
    NoteHandlerStarts(
        NoteFetch("put", id, content, notes, OriginalContent(notes, id)),
        MapContent(notes, id, content))

\* handleNoteChange after its await: the revert when the response is not ok
handleNoteChangeResponse(fetch) ==
    /\ BagIn(fetch, noteFetches) /\ fetch.kind = "put"
    /\ NotesPutHandler(authToken, Absent, fetch.id, JStr(fetch.content))
    /\ noteFetches' = noteFetches (-) SetToBag({fetch})
    /\ notes' = IF last'.status = 200 THEN notes
                ELSE MapContent(fetch.notes, fetch.id, fetch.originalContent)

\* deleteNote up to its await: the note is removed before the request
deleteNote(id) ==
    NoteHandlerStarts(NoteFetch("delete", id, "", notes, ""),
                      FilterOut(notes, id))

\* deleteNote after its await: setNotes(originalNotes) when not ok
deleteNoteResponse(fetch) ==
    /\ BagIn(fetch, noteFetches) /\ fetch.kind = "delete"
    /\ NotesDeleteHandler(authToken, Absent, fetch.id)
    /\ noteFetches' = noteFetches (-) SetToBag({fetch})
    /\ notes' = IF last'.status = 200 THEN notes ELSE fetch.notes

\* The ids of the notes on screen.
ShownIds == {notes[i].id : i \in DOMAIN notes}

\* The ids of the notes that the server keeps for the identity; a second
\* client of the same identity deletes one of them.
StoredIds == {notesFile[ValidToken][i].id : i \in DOMAIN notesFile[ValidToken]}

NextNotesUi ==
    \/ HandleLogin("10.0.0.1", <<1, 5, 3, 7>>)
    \/ Tick
    \/ fetchNotes
    \/ Len(notes) < MaxEntries /\ addNote
    \/ \E id \in ShownIds : handleNoteChange(id, "x")
    \/ \E id \in ShownIds : deleteNote(id)
    \/ \E fetch \in BagToSet(noteFetches) : addNoteResponse(fetch)
    \/ \E fetch \in BagToSet(noteFetches) : handleNoteChangeResponse(fetch)
    \/ \E fetch \in BagToSet(noteFetches) : deleteNoteResponse(fetch)
    \/ \E id \in StoredIds : NotesDelete(Some(ValidToken), Absent, id)

SpecNotesUi == Init /\ [][NextNotesUi]_vars

(***************************************************************************)
(* I/O failures of the file routes. After fs.access has succeeded the file *)
(* is streamed by res.download / res.sendFile, whose callback gets the     *)
(* error of a failed read or of a connection the client closed, before or  *)
(* after the headers of the response were sent. An exception thrown in     *)
(* such a callback, or in the callback of fs.readdir, is caught by nobody: *)
(* node ends the process.                                                  *)
(***************************************************************************)
ExitOp == "process exit"

\* The process is gone with everything it kept in memory; the disk and the
\* browser's storage stay.
ProcessExits ==
    /\ last' = LocalStep(ExitOp)
    /\ imageLoginAttempts' = [o \in Origins |-> 0]
    /\ authenticatedUsers' = {}
    /\ adminPasswordAttempts' = [k \in Identities |-> 0]
    /\ adminPending' = EmptyBag
    /\ uploadStreams' = EmptyBag
    /\ issued' = {}
    /\ fails' = [o \in Origins |-> 0]
    /\ scen' = FreshScen
    /\ payload' = Nothing
    /\ UNCHANGED <<authToken, uiVars, boot, tokensSeen, revoked, uploadDir,
                   completed, dataVars>>

\* What was sent of a response that ended before its end.
Aborted == Carry("aborted", <<>>)

\* res.download fails: lines 258-263 answer 500 unless res.headersSent.
DownloadFails(authorization, queryToken, filename, headersSent) ==
    /\ Passes(authorization, queryToken)
    /\ FileExists(PathJoin(UPLOAD_DIR, filename))
    /\ last' = IF headersSent
               THEN Answer(DownloadOp, Param(filename), authorization,
                           queryToken, 200, "")
               ELSE Answer(DownloadOp, Param(filename), authorization,
                           queryToken, 500, "Error downloading file.")
    /\ payload' = IF headersSent THEN Aborted ELSE Nothing
    /\ UNCHANGED <<serverVars, authToken, uiVars, boot, histVars, adminVars,
                   dataVars, fileVars>>

\* res.sendFile fails: line 352 calls res.status(500).json(...) whether the
\* headers were sent or not, and res.json throws once they were.
ImagesFails(authorization, queryToken, filename, headersSent) ==
    /\ Passes(authorization, queryToken)
    /\ FileExists(PathJoin(UPLOAD_DIR, filename))
    /\ IF headersSent THEN ProcessExits
       ELSE /\ last' = Answer(ImagesOp, Param(filename), authorization,
                              queryToken, 500, "Error sending image.")
            /\ payload' = Nothing
            /\ UNCHANGED <<serverVars, authToken, uiVars, boot, histVars,
                           adminVars, dataVars, fileVars>>

\* GET /files fails: an error of fs.readdir is answered 500 (lines 281-284),
\* an error thrown by fs.statSync (line 286) is not caught.
FilesListFails(authorization, queryToken, failed) ==
    /\ Passes(authorization, queryToken)
    /\ IF failed = "statSync" THEN
           /\ uploadDir # <<>>
           /\ ProcessExits
       ELSE /\ last' = Answer(FilesOp, NoBody, authorization, queryToken,
                              500, "Error listing files.")
            /\ payload' = Nothing
            /\ UNCHANGED <<serverVars, authToken, uiVars, boot, histVars,
                           adminVars, dataVars, fileVars>>

(***************************************************************************)
(* The file access surface: one client that logs in, uploads one file at a *)
(* time, writes notes and vault entries, and lists, downloads and previews *)
(* files by plain                                                          *)
(* names and by a name that leaves the directory, with its token in the    *)
(* header or in the query; other callers with a token never issued or with *)
(* none; I/O failures. Nothing is served once the process has ended.       *)
(***************************************************************************)
SurfaceCredentials ==
    {<<Absent, Absent>>, <<Some(ValidToken), Absent>>,
     <<Absent, Some(ValidToken)>>, <<Absent, Some(ForgedToken)>>}
SurfaceFiles == {FilePart("a.png", <<"a1">>), FilePart("b.txt", <<"b1", "b2">>)}
SurfaceNames ==
    {"a.png", "b.txt", "none.txt", NotesTraversal, PasswordsTraversal}

\* The process has not ended.
Serving == last.op # ExitOp

NextSurface ==
    \/ Serving /\ PostLogin("10.0.0.1", Arr(CORRECT_IMAGE_SEQUENCE))
    \/ \E c \in SurfaceCredentials, f \in SurfaceFiles :
           /\ Serving
           /\ Passes(c[1], c[2]) => uploadStreams = EmptyBag
           /\ UploadBegin(c[1], c[2], f)
    \/ \E s \in BagToSet(uploadStreams) : Serving /\ UploadWrite(s)
    \/ \E s \in BagToSet(uploadStreams) : Serving /\ UploadEnd(s)
    \/ Serving /\ NotesPost(Some(ValidToken), Absent, JStr("x"))
    \/ Serving /\ PasswordsPost(Some(ValidToken), Absent,
                                Entry("site", "me", "pw"))
    \/ \E c \in SurfaceCredentials : Serving /\ FilesList(c[1], c[2])
    \/ \E c \in SurfaceCredentials, n \in SurfaceNames :
           Serving /\ Download(c[1], c[2], n)
    \/ \E c \in SurfaceCredentials, n \in SurfaceNames :
           Serving /\ Images(c[1], c[2], n)
    \/ \E c \in SurfaceCredentials, n \in SurfaceNames, h \in BOOLEAN :
           Serving /\ DownloadFails(c[1], c[2], n, h)
    \/ \E c \in SurfaceCredentials, n \in SurfaceNames, h \in BOOLEAN :
           Serving /\ ImagesFails(c[1], c[2], n, h)
    \/ \E c \in SurfaceCredentials, f \in {"readdir", "statSync"} :
           Serving /\ FilesListFails(c[1], c[2], f)

SpecSurface == Init /\ [][NextSurface]_vars

(***************************************************************************)
(* Properties.                                                             *)
(***************************************************************************)
IsLogin(step) == step.op = "POST /login"
IsProtected(step) == step.op \in ProtectedOps

\* C1: a list submitted to POST /login by an origin below the ceiling is
\* answered 200 with a token iff it is the secret, element by element and in
\* order, and 401 otherwise: every permutation, proper prefix and proper
\* extension of the secret gets 401.
C1_LoginIffExactSequence ==
    [][\A o \in Origins :
          ( /\ IsLogin(last') /\ last'.origin = o
            /\ imageLoginAttempts[o] < MAX_IMAGE_LOGIN_ATTEMPTS
            /\ last'.body.kind = "array" )
          => /\ (last'.status = 200 /\ Truthy(last'.token))
                    <=> last'.body.seq = CORRECT_IMAGE_SEQUENCE
             /\ last'.body.seq # CORRECT_IMAGE_SEQUENCE => last'.status = 401
      ]_vars

\* A permutation of the secret other than the secret has just been answered
\* 401, and so have a proper prefix or extension in other states.
C1_Witness ==
    /\ IsLogin(last)
    /\ last.status = 401
    /\ last.body.seq \in (SecretPermutations \cup ProperPrefixes \cup ProperExtensions)
    /\ authenticatedUsers # {}

\* C2: after exactly N failed logins of one origin with no success in between
\* (N the ceiling), the next login of that origin is answered 429, the correct
\* sequence included, and adds no token to the session store.
C2_ThrottledAfterCeiling ==
    [][\A o \in Origins :
          ( /\ fails[o] = MAX_IMAGE_LOGIN_ATTEMPTS
            /\ IsLogin(last') /\ last'.origin = o )
          => /\ last'.status = 429
             /\ last'.token = Absent
             /\ authenticatedUsers' = authenticatedUsers
      ]_vars

\* The correct sequence has just been answered 429 after N failures.
C2_Witness ==
    /\ IsLogin(last)
    /\ last.status = 429
    /\ last.body = Arr(CORRECT_IMAGE_SEQUENCE)
    /\ fails[last.origin] = MAX_IMAGE_LOGIN_ATTEMPTS
    /\ authenticatedUsers = {}

\* C3: a successful login below the ceiling sets the origin's counter to zero,
\* and an origin is throttled only when N failed attempts have been made since
\* its last success.
C3_SuccessResetsCounter ==
    [][\A o \in Origins :
          (IsLogin(last') /\ last'.origin = o)
          => /\ (last'.status = 200 =>
                    /\ imageLoginAttempts[o] < MAX_IMAGE_LOGIN_ATTEMPTS
                    /\ imageLoginAttempts'[o] = 0)
             /\ (last'.status = 429 => fails[o] = MAX_IMAGE_LOGIN_ATTEMPTS)
             /\ imageLoginAttempts'[o] = fails'[o]
      ]_vars

\* After a successful login of the client, an origin has failed once and its
\* counter is 1.
C3_Witness ==
    /\ IsLogin(last)
    /\ last.status = 401
    /\ imageLoginAttempts[last.origin] = 1
    /\ Truthy(authToken)
    /\ \A o \in Origins : o # last.origin => imageLoginAttempts[o] = 0 /\ fails[o] = 0
    /\ boot = 0

\* C4 as stated: four [1,2,3,4] logins of one origin are each answered 401 and
\* leave its counter at 4, and the fifth login of that origin is answered 429
\* whatever it carries.
C4_FifthCallThrottled ==
    [][\A o \in Origins :
          (IsLogin(last') /\ last'.origin = o)
          => /\ ( /\ scen.n \in 0..3 /\ (scen.n = 0 \/ scen.o = o)
                  /\ last'.body = Arr(WrongSequence) )
                => (last'.status = 401 /\ imageLoginAttempts'[o] = scen.n + 1)
             /\ (scen.n = 4 /\ scen.o = o) => last'.status = 429
      ]_vars

\* C4 amended: five [1,2,3,4] logins of one origin are each answered 401 and
\* leave its counter at 5 (at 4 after the fourth); the fifth login is still
\* verified (200 for the correct sequence); the sixth login of that origin is
\* answered 429 whatever it carries.
C4_SixthCallThrottled ==
    [][\A o \in Origins :
          (IsLogin(last') /\ last'.origin = o)
          => /\ ( /\ scen.n \in 0..4 /\ (scen.n = 0 \/ scen.o = o)
                  /\ last'.body = Arr(WrongSequence) )
                => (last'.status = 401 /\ imageLoginAttempts'[o] = scen.n + 1)
             /\ (scen.n = 4 /\ scen.o = o)
                => /\ last'.status # 429
                   /\ last'.body = Arr(CORRECT_IMAGE_SEQUENCE) => last'.status = 200
             /\ (scen.n = 5 /\ scen.o = o) => last'.status = 429
      ]_vars

\* The sixth [1,2,3,4] login of one origin has just been answered 429.
C4_Witness ==
    /\ scen.n = 6
    /\ IsLogin(last)
    /\ last.status = 429
    /\ imageLoginAttempts[last.origin] = 5

\* The tokens a request supplies, in its header or in its query parameter.
Supplied(step) == {v \in {step.hdr, step.qry} : Truthy(v)}

\* C5: a token returned by a successful login is accepted by the gateway on
\* every protected request of the same process, the identity attached being
\* that token; no step of the process removes it from the session store.
C5_IssuedTokenStaysValid ==
    [][/\ boot' = boot =>
              /\ authenticatedUsers \subseteq authenticatedUsers'
              /\ issued \subseteq authenticatedUsers'
       /\ \A t \in issued :
              (IsProtected(last') /\ last'.hdr = Some(t))
              => /\ last'.ran
                 /\ last'.user = Some(t)
                 /\ last'.status \notin {401, 403}
      ]_vars

\* A protected request with the issued token has passed the gateway while the
\* origin that had logged in is throttled.
C5_Witness ==
    /\ IsProtected(last)
    /\ last.ran
    /\ last.hdr = Some(ValidToken)
    /\ \E o \in Origins : imageLoginAttempts[o] = MAX_IMAGE_LOGIN_ATTEMPTS
    /\ revoked # {}

\* C6: every member of the session store was returned by a successful login
\* of this process, and the gateway never lets through a token that no login
\* of this process returned.
C6_OnlyIssuedTokensInStore ==
    /\ authenticatedUsers \subseteq issued
    /\ (IsLogin(last) /\ last.status # 200) => last.token = Absent
    /\ (IsProtected(last) /\ last.ran)
           => (Truthy(last.user) /\ last.user[1] \in issued)

\* After failed, malformed and throttled logins and one success, a request
\* with a token that was never issued has been answered 403.
C6_Witness ==
    /\ IsProtected(last)
    /\ last.status = 403
    /\ last.hdr = Some(ForgedToken)
    /\ authenticatedUsers = {ValidToken}
    /\ \E o \in Origins : fails[o] > 0

\* C7: once a token has been logged out, the gateway rejects every request
\* that carries it, until a successful login issues it again.
C7_LoggedOutTokenRejected ==
    \A t \in revoked :
        (IsProtected(last) /\ Some(t) \in Supplied(last))
        => (~last.ran /\ last.status = 403)

\* C8: all successful logins, from any origin, in any counter state and in
\* any process, return one and the same token string, and a token issued by
\* this process is in the session store whatever the counters are.
C8_OneDeterministicToken ==
    /\ tokensSeen \subseteq {"user_2_6_4_8"}
    /\ (IsLogin(last) /\ last.status = 200) => last.token = Some("user_2_6_4_8")
    /\ issued \subseteq authenticatedUsers

\* The token has been returned again after a restart, to the client, while an
\* origin is throttled.
C8_Witness ==
    /\ boot = 1
    /\ IsLogin(last)
    /\ last.status = 200
    /\ Truthy(authToken)
    /\ issued = {ValidToken}
    /\ \E o \in Origins : imageLoginAttempts[o] = MAX_IMAGE_LOGIN_ATTEMPTS

\* C9: a client that kept its token across a restart of the server is still
\* authenticated: a protected request that carries the token the client has
\* stored passes the gateway.
C9_StoredTokenSurvivesRestart ==
    (IsProtected(last) /\ Truthy(authToken) /\ last.hdr = authToken)
        => (last.ran /\ last.user = authToken)

\* C10: the gateway gives one of three outcomes: no token supplied, 401
\* 'Authentication token required' and the handler does not run; tokens
\* supplied and none in the session store, 403 'Invalid or expired token' and
\* the handler does not run; the supplied token in the session store, the
\* identity is that token and the handler runs.
C10_GatewayThreeOutcomes ==
    [][IsProtected(last') =>
          LET given == Supplied(last') IN
          /\ given = {} =>
                 /\ last'.status = 401
                 /\ last'.message = "Authentication token required"
                 /\ ~last'.ran /\ last'.user = Absent
          /\ (given # {} /\ \A v \in given : v[1] \notin authenticatedUsers) =>
                 /\ last'.status = 403
                 /\ last'.message = "Invalid or expired token"
                 /\ ~last'.ran /\ last'.user = Absent
          /\ (given # {} /\ \A v \in given : v[1] \in authenticatedUsers) =>
                 /\ last'.ran
                 /\ last'.user \in given
                 /\ last'.status \notin {401, 403}
          /\ last'.ran <=> last'.status \notin {401, 403}
          /\ UNCHANGED <<serverVars, authToken, boot>>
      ]_vars

\* With a token in the store, a request with an unknown token has been
\* answered 403 (the 401 and the accepted outcomes occur in other states).
C10_Witness ==
    /\ IsProtected(last)
    /\ last.status = 403
    /\ ~last.ran
    /\ last.qry = Some(ForgedToken)
    /\ last.hdr = Some("")
    /\ authenticatedUsers # {}

\* C13: whatever the order in which the login requests of the origins are
\* handled, an origin's counter stays within 0..ceiling, each failed login
\* adds exactly one to it, a throttled one leaves it at the ceiling, and it
\* equals the number of failures since the origin's last success: after k
\* failed logins it is min(k, ceiling).
C13_LoginCounterExact ==
    [][\A o \in Origins :
          /\ imageLoginAttempts'[o] \in 0..MAX_IMAGE_LOGIN_ATTEMPTS
          /\ imageLoginAttempts'[o] = fails'[o]
          /\ (IsLogin(last') /\ last'.origin = o /\ last'.status \in {401, 429})
             => /\ imageLoginAttempts'[o] =
                       Min(imageLoginAttempts[o] + 1, MAX_IMAGE_LOGIN_ATTEMPTS)
                /\ last'.status = 401 =>
                       imageLoginAttempts'[o] = imageLoginAttempts[o] + 1
                /\ \A p \in Origins \ {o} :
                       imageLoginAttempts'[p] = imageLoginAttempts[p]
      ]_vars

\* Both origins have failed logins on their counters, one is at the ceiling,
\* and the client holds a token.
C13_Witness ==
    /\ IsLogin(last)
    /\ last.status = 401
    /\ imageLoginAttempts[last.origin] = 3
    /\ \E o \in Origins : imageLoginAttempts[o] = MAX_IMAGE_LOGIN_ATTEMPTS
    /\ Truthy(authToken)

\* C14: once the counter of an origin has reached the ceiling it does not
\* change while the process lives, and every login of that origin is answered
\* 429 and changes nothing; a restart of the process clears it.
C14_CeilingIsPermanent ==
    [][\A o \in Origins :
          /\ (imageLoginAttempts[o] >= MAX_IMAGE_LOGIN_ATTEMPTS /\ boot' = boot)
             => /\ imageLoginAttempts'[o] = imageLoginAttempts[o]
                /\ (IsLogin(last') /\ last'.origin = o)
                   => /\ last'.status = 429
                      /\ UNCHANGED <<serverVars, authToken>>
          /\ boot' # boot => imageLoginAttempts'[o] = 0
      ]_vars

\* A throttled origin has been answered 429 on the correct sequence while the
\* client, logged in from elsewhere, has made requests and logged out.
C14_Witness ==
    /\ IsLogin(last)
    /\ last.status = 429
    /\ last.body = Arr(CORRECT_IMAGE_SEQUENCE)
    /\ imageLoginAttempts[last.origin] = MAX_IMAGE_LOGIN_ATTEMPTS
    /\ authenticatedUsers # {}
    /\ revoked # {}

IsAdminEntry(step) == step.op = AdminOp /\ step.ran
IsAdminResumed(step) == step.op = AdminResumedOp

\* C12: however concurrent admin checks of one identity interleave, the
\* admin counter of that identity never exceeds the admin ceiling (so that at
\* most ceiling wrong passwords are compared between two resets).
C12_AdminCounterWithinCeiling ==
    \A k \in Identities :
        adminPasswordAttempts[k] <= MAX_ADMIN_PASSWORD_ATTEMPTS

\* C15: within one process every step leaves each attempt counter as it was,
\* except that a failed verification of a key (401 for a login, 403 for an
\* admin check) adds exactly one to that key's counter and a successful one
\* sets it to zero.
C15_CountersStepByOneOrReset ==
    [][boot' = boot =>
          /\ \A o \in Origins :
                IF IsLogin(last') /\ last'.origin = o /\ last'.status = 401
                THEN imageLoginAttempts'[o] = imageLoginAttempts[o] + 1
                ELSE IF IsLogin(last') /\ last'.origin = o /\ last'.status = 200
                THEN imageLoginAttempts'[o] = 0
                ELSE imageLoginAttempts'[o] = imageLoginAttempts[o]
          /\ \A k \in Identities :
                IF IsAdminResumed(last') /\ last'.user = Some(k)
                   /\ last'.status = 403
                THEN adminPasswordAttempts'[k] = adminPasswordAttempts[k] + 1
                ELSE IF IsAdminResumed(last') /\ last'.user = Some(k)
                        /\ last'.status = 200
                THEN adminPasswordAttempts'[k] = 0
                ELSE adminPasswordAttempts'[k] = adminPasswordAttempts[k]
      ]_vars

\* A wrong admin password has just been counted, the third of its identity,
\* while an origin has failed logins on its own counter.
C15_Witness ==
    /\ IsAdminResumed(last)
    /\ last.status = 403
    /\ adminPasswordAttempts[ValidToken] = 3
    /\ \E o \in Origins : imageLoginAttempts[o] = 2

\* C16: a login changes no admin counter and no counter of another origin,
\* and is verified whatever the other counters are; an admin check, at its
\* entry and when it is resumed, changes no login counter and not the
\* session store.
C16_ThrottlesIndependent ==
    [][/\ IsLogin(last') =>
             /\ adminPasswordAttempts' = adminPasswordAttempts
             /\ \A p \in Origins \ {last'.origin} :
                    imageLoginAttempts'[p] = imageLoginAttempts[p]
             /\ ( /\ imageLoginAttempts[last'.origin] < MAX_IMAGE_LOGIN_ATTEMPTS
                  /\ last'.body = Arr(CORRECT_IMAGE_SEQUENCE) )
                => last'.status = 200
       /\ (last'.op = AdminOp \/ IsAdminResumed(last')) =>
             UNCHANGED <<imageLoginAttempts, authenticatedUsers>>
      ]_vars

\* One origin is throttled, the identity has failed admin checks, and the
\* other origin has just logged in.
C16_Witness ==
    /\ IsLogin(last)
    /\ last.status = 200
    /\ \E o \in Origins \ {last.origin} :
           imageLoginAttempts[o] = MAX_IMAGE_LOGIN_ATTEMPTS
    /\ adminPasswordAttempts[ValidToken] >= 1

\* C17: from a key below its ceiling, a login whose imageSequence is missing
\* or not a list, and an admin check without a password, are answered 400 and
\* change neither a counter nor the session store.
C17_BadRequestNotCounted ==
    [][/\ ( /\ IsLogin(last')
            /\ imageLoginAttempts[last'.origin] < MAX_IMAGE_LOGIN_ATTEMPTS
            /\ last'.body.kind # "array" )
          => /\ last'.status = 400
             /\ UNCHANGED <<serverVars, adminVars>>
       /\ ( /\ IsAdminEntry(last')
            /\ adminPasswordAttempts[last'.user[1]] < MAX_ADMIN_PASSWORD_ATTEMPTS
            /\ Falsy(last'.body) )
          => /\ last'.status = 400
             /\ UNCHANGED <<serverVars, adminVars>>
      ]_vars

\* An admin check with an empty password has been answered 400 with two
\* failures on the identity's counter, while another check is in flight.
C17_Witness ==
    /\ IsAdminEntry(last)
    /\ last.status = 400
    /\ last.body = JStr("")
    /\ adminPasswordAttempts[ValidToken] = 2
    /\ adminPending # EmptyBag

\* C18: an admin check of an authenticated identity is answered 429, and is
\* not compared, iff the identity's counter is at the admin ceiling when the
\* handler reads it, the correct password included; a check that was
\* compared is answered 403 with the counter plus one when the password is
\* wrong, and success with the counter at zero when it is the admin password.
C18_AdminCheckOutcomes ==
    [][/\ IsAdminEntry(last') =>
             LET k == last'.user[1] IN
             /\ last'.status = 429
                    <=> adminPasswordAttempts[k] >= MAX_ADMIN_PASSWORD_ATTEMPTS
             /\ last'.status = 429 => UNCHANGED adminVars
             /\ last'.status \in {429, 400, 0}
       /\ IsAdminResumed(last') =>
             LET k == last'.user[1] IN
             /\ (last'.body.kind = "string" /\ last'.body # JStr(ADMIN_PASSWORD))
                => /\ last'.status = 403
                   /\ adminPasswordAttempts'[k] = adminPasswordAttempts[k] + 1
             /\ last'.body = JStr(ADMIN_PASSWORD)
                => /\ last'.status = 200
                   /\ adminPasswordAttempts'[k] = 0
      ]_vars

\* The admin password itself has been answered 429 at the ceiling.
C18_Witness ==
    /\ IsAdminEntry(last)
    /\ last.status = 429
    /\ last.body = JStr(ADMIN_PASSWORD)
    /\ adminPasswordAttempts[ValidToken] = MAX_ADMIN_PASSWORD_ATTEMPTS

IsDownload(step) == step.op = DownloadOp /\ step.ran

\* C19: an authenticated download of a name that has a completed upload
\* returns exactly the data of the most recent completed upload of that name.
C19_DownloadReturnsLastCompleted ==
    [][(IsDownload(last') /\ last'.body.seq[1] \in DOMAIN completed)
          => /\ last'.status = 200
             /\ payload'.kind = "file"
             /\ payload'.data = completed[last'.body.seq[1]]
      ]_vars

\* C20: once no upload of a name is running any more, the file stored under
\* that name holds the data of exactly one of the uploads, never parts of
\* two of them.
C20_StoredFileIsOneUpload ==
    \A n \in DOMAIN uploadDir :
        (\A s \in BagToSet(uploadStreams) : s.name # n)
        => uploadDir[n] \in Contents

\* The operations that mark the arrival of a request at a protected route.
GatedOps ==
    ProtectedOps \cup
    {UploadOp, DownloadOp, FilesOp, ImagesOp, NotesPostOp, NotesPutOp,
     NotesDeleteOp, PasswordsPostOp, PasswordsDeleteOp, AdminOp}

\* The token the request carries is not in the session store.
NotInStore(step) ==
    LET token == ExtractToken(step.hdr, step.qry) IN
    ~Truthy(token) \/ token[1] \notin authenticatedUsers

\* C11: a request to a protected route whose token is not in the session
\* store is answered 401 or 403 and nothing else happens: the upload
\* directory and its write streams, the notes file, the vault file and the
\* admin counters are unchanged, and the response carries no file content,
\* listing, note or vault entry.
C11_NoEffectWithoutSession ==
    [][(last'.op \in GatedOps /\ NotInStore(last'))
          => /\ last'.status \in {401, 403}
             /\ ~last'.ran
             /\ payload' = Nothing
             /\ UNCHANGED <<uploadDir, uploadStreams, completed, notesFile,
                            passwordsFile, adminPasswordAttempts, adminPending>>
      ]_vars

\* An upload that carries a file and a token never issued has been rejected
\* while the name is not in the directory, and the logged-in identity has a
\* note, a vault entry and failed admin checks.
C11_Witness ==
    /\ last.op = UploadOp
    /\ last.status = 403
    /\ last.body.kind = "file"
    /\ Head(last.body.seq) \notin DOMAIN uploadDir
    /\ notesFile[ValidToken] # <<>>
    /\ passwordsFile[ValidToken] # <<>>
    /\ adminPasswordAttempts[ValidToken] > 0

\* C27: a login of an origin whose counter is at the ceiling is answered 429
\* whatever its body is (missing, not a list, a wrong list, the secret),
\* never 400, 401 or 200, and changes no counter and not the session store:
\* the throttle test comes before the validation of the body and before the
\* comparison.
C27_ThrottleBeforeValidation ==
    [][\A o \in Origins :
          ( /\ IsLogin(last') /\ last'.origin = o
            /\ imageLoginAttempts[o] >= MAX_IMAGE_LOGIN_ATTEMPTS )
          => /\ last'.status = 429
             /\ last'.token = Absent
             /\ UNCHANGED serverVars
      ]_vars

\* A login without imageSequence has been answered 429 at the ceiling.
C27_Witness ==
    /\ IsLogin(last)
    /\ last.body = Missing
    /\ last.status = 429
    /\ imageLoginAttempts[last.origin] = MAX_IMAGE_LOGIN_ATTEMPTS
    /\ fails[last.origin] = MAX_IMAGE_LOGIN_ATTEMPTS

\* C29: the session store never holds a token other than the one derived
\* from the secret, every successful login of every origin returns that
\* token, every admin check that runs is counted against that one identity,
\* and once its counter is at the ceiling every admin check that passes the
\* gateway is answered 429.
C29_OneSharedIdentity ==
    [][/\ authenticatedUsers' \subseteq {TokenOf(CORRECT_IMAGE_SEQUENCE)}
       /\ (IsLogin(last') /\ last'.status = 200)
          => last'.token = Some(TokenOf(CORRECT_IMAGE_SEQUENCE))
       /\ \A k \in Identities \ {TokenOf(CORRECT_IMAGE_SEQUENCE)} :
              adminPasswordAttempts'[k] = 0
       /\ IsAdminEntry(last')
          => /\ last'.user = Some(TokenOf(CORRECT_IMAGE_SEQUENCE))
             /\ adminPasswordAttempts[TokenOf(CORRECT_IMAGE_SEQUENCE)]
                    >= MAX_ADMIN_PASSWORD_ATTEMPTS
                => last'.status = 429
      ]_vars

\* The admin password has been answered 429 after the counter of the one
\* identity reached the ceiling; the store holds the one token.
C29_Witness ==
    /\ IsAdminEntry(last)
    /\ last.status = 429
    /\ last.body = JStr(ADMIN_PASSWORD)
    /\ authenticatedUsers = {ValidToken}
    /\ adminPasswordAttempts[ValidToken] >= MAX_ADMIN_PASSWORD_ATTEMPTS

IsServe(step) == step.op \in {DownloadOp, ImagesOp} /\ step.ran
NotFoundOf(op) == IF op = DownloadOp THEN "File not found." ELSE "Image not found."

C22_AbsentNameIs404 ==
    [][(IsServe(last') /\ last'.body.seq[1] \notin DOMAIN uploadDir)
          => /\ last'.status = 404
             /\ payload'.kind = "none"
      ]_vars

\* C24: no step ends the process: after every failure it keeps serving.
C24_ProcessKeepsServing == last.op # ExitOp

\* C26: a download or preview without Authorization header and with a token
\* in the query parameter gets the answer, and the content, that the same
\* request with that token in the header gets in the same state, for issued
\* tokens and for others, unless the transfer itself fails.
C26_QueryTokenAsHeader ==
    [][( /\ last'.op \in {DownloadOp, ImagesOp}
         /\ last'.hdr = Absent /\ last'.qry # Absent
         /\ last'.status # 500 /\ payload'.kind # "aborted" )
          => /\ [last' EXCEPT !.hdr = last'.qry, !.qry = Absent]
                    = ServeAnswer(last'.op, NotFoundOf(last'.op), last'.qry,
                                  Absent, last'.body.seq[1])
             /\ payload'.kind =
                    ServeCarries(last'.qry, Absent, last'.body.seq[1]).kind
             /\ payload'.kind = "file"
                => payload'.data =
                    ServeCarries(last'.qry, Absent, last'.body.seq[1]).data
             /\ last'.qry[1] \in authenticatedUsers
                => last'.ran /\ last'.user = last'.qry
      ]_vars

\* A preview of a stored image has been served to a request that carried the
\* issued token in the query only.
C26_Witness ==
    /\ last.op = ImagesOp
    /\ last.hdr = Absent
    /\ last.qry = Some(ValidToken)
    /\ last.status = 200
    /\ last.body = Param("a.png")
    /\ payload = Carry("file", <<"a1">>)

\* C28: every file that a download or preview reads is directly inside the
\* upload directory; the content of notes.json or passwords.json is never
\* returned.
C28_ReadsStayInUploadDir ==
    [][(IsServe(last') /\ last'.status = 200)
          => /\ Inside(UPLOAD_DIR, PathJoin(UPLOAD_DIR, last'.body.seq[1]))
             /\ payload'.kind \notin {"notes.json", "passwords.json"}
      ]_vars

Ids(list) == [i \in DOMAIN list |-> list[i].id]
Distinct(seq) == \A i, j \in DOMAIN seq : seq[i] = seq[j] => i = j

\* C25: in the collection of every identity the ids of the notes are
\* pairwise different, and so are the ids of the vault entries.
C25_IdsUniquePerIdentity ==
    \A user \in Identities :
        /\ Distinct(Ids(notesFile[user]))
        /\ Distinct(Ids(passwordsFile[user]))

\* The name ends in one of the image extensions, in any mix of cases.
EndsInImageExtension(file) ==
    \E ext \in imageExtensions :
        /\ Len(file) >= Len(ext)
        /\ ToLowerCase(SubSeq(file, Len(file) - Len(ext) + 1, Len(file))) = ext

\* C23: a column that has fetched a listing holds the names of the listing
\* that end in an image extension (case-insensitively) when it is the image
\* column and the other names when it is not; the two selections of one
\* listing are disjoint and together are the listing; {a.png, b.txt, c.JPG}
\* gives {a.png, c.JPG} and {b.txt}.
C23_ColumnsPartitionListing ==
    [][(last'.op = FilesOp /\ last'.status = 200)
          => LET listing == payload'.data
                 images == {file \in listing : EndsInImageExtension(file)}
             IN
             /\ filteredFiles(listing, "image") = images
             /\ filteredFiles(listing, "other") = listing \ images
             /\ \E fileTypeFilter \in DOMAIN columns :
                    columns' = [columns EXCEPT ![fileTypeFilter] =
                                   IF fileTypeFilter = "image" THEN images
                                   ELSE listing \ images]
             /\ filteredFiles({"a.png", "b.txt", "c.JPG"}, "image")
                    = {"a.png", "c.JPG"}
             /\ filteredFiles({"a.png", "b.txt", "c.JPG"}, "other")
                    = {"b.txt"}
      ]_vars

\* Both columns have fetched the listing {a.png, b.txt, c.JPG}.
C23_Witness ==
    /\ last.op = FilesOp
    /\ last.status = 200
    /\ payload.kind = "files"
    /\ payload.data = {"a.png", "b.txt", "c.JPG"}
    /\ columns["image"] = {"a.png", "c.JPG"}
    /\ columns["other"] = {"b.txt"}

\* The vault, notes and file routes: every gated route but the admin check.
DataOps == GatedOps \ {AdminOp}

\* C30: a request to a vault, notes or file route is let in exactly when its
\* token is in the session store, whatever admin checks were made before
\* (none, failed, passed, throttled): it is then never answered 401, 403 or
\* 429, a read returns the stored entries of the identity or the names in
\* the directory, a create adds one entry and a delete removes one; and no
\* such request changes the admin counter or the pending admin checks.
C30_DataIgnoresAdminCheck ==
    [][last'.op \in DataOps
          => LET token == ExtractToken(last'.hdr, last'.qry) IN
             /\ UNCHANGED adminVars
             /\ NotInStore(last') => last'.status \in {401, 403}
             /\ ~NotInStore(last')
                => /\ last'.ran
                   /\ last'.user = token
                   /\ last'.status \notin {401, 403, 429}
                   /\ last'.op = "GET /passwords"
                      => payload' = Carry("passwords", passwordsFile[token[1]])
                   /\ last'.op = "GET /notes"
                      => payload' = Carry("notes", notesFile[token[1]])
                   /\ last'.op = FilesOp
                      => payload'.data = DOMAIN uploadDir
                   /\ last'.op = PasswordsPostOp
                      => /\ last'.status = 200
                         /\ Len(passwordsFile'[token[1]])
                                = Len(passwordsFile[token[1]]) + 1
                   /\ (last'.op = PasswordsDeleteOp /\ last'.status = 200)
                      => Len(passwordsFile'[token[1]])
                             = Len(passwordsFile[token[1]]) - 1
      ]_vars

\* The vault has been read, with an entry in it, by the identity whose admin
\* check is throttled.
C30_Witness ==
    /\ last.op = "GET /passwords"
    /\ last.status = 200
    /\ payload.kind = "passwords"
    /\ Len(payload.data) > 0
    /\ adminPasswordAttempts[ValidToken] >= MAX_ADMIN_PASSWORD_ATTEMPTS

\* C31: a protected request with a non-empty Authorization header is decided
\* on the header alone (200 as that identity when the header value is in the
\* session store, 403 when it is not, whatever the query parameter holds);
\* the query parameter decides only when the header is absent or empty.
C31_HeaderBeforeQuery ==
    [][IsProtected(last')
          => LET decides == IF Truthy(last'.hdr) THEN last'.hdr ELSE last'.qry
             IN
             IF ~Truthy(decides) THEN last'.status = 401 /\ ~last'.ran
             ELSE IF decides[1] \in authenticatedUsers
             THEN last'.status = 200 /\ last'.ran /\ last'.user = decides
             ELSE last'.status = 403 /\ ~last'.ran
      ]_vars

\* A request with a token never issued in the header and the issued token in
\* the query has been rejected with 403.
C31_Witness ==
    /\ IsProtected(last)
    /\ last.hdr = Some(ForgedToken)
    /\ last.qry = Some(ValidToken)
    /\ ValidToken \in authenticatedUsers
    /\ last.status = 403

\* C32: the clicked sequence never holds more than 4 cells; a login request
\* leaves the client only when the sequence is not empty, and carries its
\* cells; and when a login response has been handled, ok or not, the
\* sequence is empty.
C32_ClickedSequenceDiscipline ==
    /\ Len(clickedSequence) <= 4
    /\ [][/\ Len(clickedSequence') <= 4
          /\ BagCardinality(loginFetches') > BagCardinality(loginFetches)
             => /\ Len(clickedSequence) > 0
                /\ last'.op = "POST /login"
                /\ last'.body =
                       Arr([i \in 1..Len(clickedSequence) |->
                               Num(clickedSequence[i] + 1)])
          /\ BagCardinality(loginFetches') < BagCardinality(loginFetches)
             => clickedSequence' = <<>>
         ]_vars

\* The response of a rejected login has been handled while a second login
\* is still in flight: the sequence is empty and the modal is still shown.
C32_Witness ==
    /\ last.op = LoginResponseOp
    /\ clickedSequence = <<>>
    /\ authToken = Absent
    /\ loginFetches # EmptyBag

\* C33: when the server rejects an update or a delete of a note that the
\* client sent, the list on screen afterwards holds that note with the
\* content it had before the operation, and every other note that was on
\* screen when the rejection arrived is still there, unchanged.
C33_RevertTouchesOneNote ==
    [][( /\ last'.op \in {NotesPutOp, NotesDeleteOp}
         /\ last'.status # 200
         /\ BagCardinality(noteFetches') < BagCardinality(noteFetches) )
          => LET id == last'.body.seq[1] IN
             /\ \E fetch \in BagToSet(noteFetches) :
                    /\ noteFetches' = noteFetches (-) SetToBag({fetch})
                    /\ fetch.id = id
                    /\ \E i \in DOMAIN notes' :
                           /\ notes'[i].id = id
                           /\ notes'[i].content =
                                  OriginalContent(fetch.notes, id)
             /\ \A i \in DOMAIN notes :
                    notes[i].id # id
                        => \E j \in DOMAIN notes' : notes'[j] = notes[i]
      ]_vars

====
